---- MODULE Spec2Model ----
(***************************************************************************)
(* A model of the NeuralFlow workflow engine (src/neuralflow.h): the node  *)
(* lifecycle with its retry/fallback engine, the action-keyed successor    *)
(* tables, the Flow orchestrator and the batch variants.                   *)
(*                                                                         *)
(* The engine is single-threaded.  A run is modelled as a call stack of    *)
(* internalRun frames; every step of the model is one call of a user hook  *)
(* (prep, exec, execFallback, post, ...), one blocking sleep, or one turn  *)
(* of the orchestration loop.                                              *)
(***************************************************************************)
EXTENDS Integers, Sequences, FiniteSets, TLC

(***************************************************************************)
(* Bounds of the model.                                                    *)
(***************************************************************************)
MaxRetries == 3      \* largest maxRetries a node is constructed with
MaxWait    == 2      \* largest waitMillis a node is constructed with
MaxCalls   == 3      \* most wiring calls made before a run
MaxSteps   == 3      \* most node invocations of one run (graphs may cycle)
MaxBatch   == 2      \* longest parameter-set sequence prepBatch returns
MaxItems   == 3      \* longest item sequence a BatchNode's prep returns
MaxMultiplier == 3   \* largest "multiplier" a flow's Params are given

(***************************************************************************)
(* Objects and values.                                                     *)
(***************************************************************************)
\* Node objects are identified by object identity; Null is the null pointer.
Null == "null"
ProbeNodes == {"N"}          \* a user-defined Node<int,int>, hooks arbitrary
StepNodes  == {"A", "B"}     \* user-defined Node<int,int> wired into graphs
BatchNodes == {"BN"}         \* a user-defined BatchNode<int,int>
SetNumberNodes == {"setNum"}                       \* SetNumberNode(10)
AddNumberNodes == {"addNum"}                       \* AddNumberNode(5)
CaptureNodes   == {"captureDefault", "captureOver20"}   \* ResultCaptureNode()
MainNodes  == SetNumberNodes \cup AddNumberNodes \cup CaptureNodes
LoopNodes  == {"P", "Q"}     \* user-defined Node<int,int> whose hooks never fail
MyStartNodes == {"startNode"}                      \* MyStartNode()
MyEndNodes   == {"endNode"}                        \* MyEndNode()
EchoNodes    == {"S"}        \* a user-defined Node<std::string,std::string>
StringNodes  == MyEndNodes \cup EchoNodes          \* the nodes with P = std::string
\* all deriving from Node<P,E>
RetryNodes == ProbeNodes \cup StepNodes \cup BatchNodes \cup MainNodes
              \cup LoopNodes \cup MyStartNodes \cup StringNodes
Flows      == {"F"}          \* objects of class Flow
InnerFlows == {"G"}          \* objects of class Flow wired as nodes of a Flow
BatchFlows == {"BF"}         \* objects of a user-defined BatchFlow
FlowNodes  == Flows \cup InnerFlows \cup BatchFlows
AllNodes   == RetryNodes \cup FlowNodes

\* A BatchFlow run by Flow::internalRun, as if BatchFlow did not override it.
KindOfWithoutBatchFlowOverride(n) ==
    CASE n \in FlowNodes -> "Flow"
      [] n \in BatchNodes -> "BatchNode"
      [] OTHER -> "Node"

\* The dynamic class of an object decides which internalRun override runs.
KindOf(n) ==
    CASE n \in Flows \cup InnerFlows -> "Flow"
      [] n \in BatchFlows -> "BatchFlow"
      [] n \in BatchNodes -> "BatchNode"
      [] OTHER -> "Node"

\* std::optional<std::string>: std::nullopt or a string.
Absent  == [has |-> FALSE, val |-> ""]
Some(s) == [has |-> TRUE, val |-> s]

\* std::any values held by Context and Params.
AnyInt(i) == [tag |-> "int", i |-> i, s |-> ""]
AnyStr(s) == [tag |-> "str", i |-> 0, s |-> s]

\* std::map<std::string, std::any>: a function on the set of keys present.
EmptyMap == [k \in {} |-> AnyInt(0)]

Has(m, k) == k \in DOMAIN m
Put(m, k, v) == [x \in DOMAIN m \cup {k} |-> IF x = k THEN v ELSE m[x]]

\* Values the hooks of a user-defined node may produce.
PrepVals   == {1, 2}
ExecVals   == {3, 4}
ErrKinds   == {"std", "nonstd"}        \* std::exception or anything else
PostLabels == {"", "a"}
PostActions == {Absent} \cup {Some(l) : l \in PostLabels}

VARIABLES
    maxRetries,    \* Node::maxRetries of every node
    waitMillis,    \* Node::waitMillis of every node
    currentRetry,  \* Node::currentRetry of every node
    successors,    \* BaseNode::successors of every node: label -> node
    params,        \* BaseNode::params of every node
    capturedValue, \* ResultCaptureNode::capturedValue of every capture node
    startNode,     \* Flow::startNode of every flow
    ctx,           \* the Context of the run
    stack,         \* the call stack of internalRun frames, top last
    status,        \* "idle" | "running" | "done" | "error"
    result,        \* the action run() returned
    error,         \* the exception that left run(), "" when none
    trace,         \* history: the hooks called and the sleeps, in order
    warnings,      \* the kinds of warnings logged so far
    lastCall,      \* the last wiring or lookup call and what it returned
    wiring         \* history: the calls of next(), in order

cfgVars == <<maxRetries, waitMillis, successors, params, capturedValue, startNode>>
runVars == <<currentRetry, ctx, stack, status, result, error, trace, warnings>>
runVarsButWarnings == <<currentRetry, ctx, stack, status, result, error, trace>>
apiVars == <<lastCall, wiring>>
vars == <<maxRetries, waitMillis, currentRetry, successors, params, capturedValue,
          startNode, ctx, stack, status, result, error, trace, warnings, lastCall,
          wiring>>

(***************************************************************************)
(* Frames and history.                                                     *)
(***************************************************************************)
Frame(n) ==
    [node |-> n, pc |-> "prep", prepRes |-> 0, execRes |-> 0,
     lastErr |-> "", ret |-> Absent,
     \* the locals of BatchNode::internalExec
     batchPrepResult |-> <<>>, results |-> <<>>, itemIndex |-> 0,
     \* the locals of Flow::orchestrate and BatchFlow::internalRun
     currentNode |-> Null, lastAction |-> Absent, initialParams |-> EmptyMap,
     currentRunParams |-> EmptyMap, batchParamsList |-> <<>>, batchIndex |-> 0]

Top == stack[Len(stack)]
SetTop(f) == [stack EXCEPT ![Len(stack)] = f]
Pop == SubSeq(stack, 1, Len(stack) - 1)

Event(op, n, v) == [op |-> op, node |-> n, v |-> v, a |-> Absent, item |-> 0]
ActionEvent(op, n, a) == [op |-> op, node |-> n, v |-> 0, a |-> a, item |-> 0]
ItemEvent(op, n, i, v) == [op |-> op, node |-> n, v |-> v, a |-> Absent, item |-> i]
\* The history keeps no event of a loop node: a run over loop nodes may go
\* on for ever.
Log(e) == IF e.node \in LoopNodes THEN trace ELSE Append(trace, e)

Running == status = "running" /\ Len(stack) > 0
At(k, pc) == Running /\ KindOf(Top.node) = k /\ Top.pc = pc

\* An exception caught by the enclosing Flow, which goes on with its
\* traversal as if the node had returned no action.
ThrowCaughtByFlow(e) ==
    IF Len(stack) = 1
    THEN /\ stack' = <<>>
         /\ status' = "error"
         /\ error' = e
         /\ result' = result
    ELSE /\ stack' = [Pop EXCEPT ![Len(stack) - 1].ret = Absent]
         /\ UNCHANGED <<status, result, error>>

\* An exception leaving a frame: nothing above Node::internalExec catches,
\* so it unwinds every frame and leaves run().
Throw(e) ==
    /\ stack' = <<>>
    /\ status' = "error"
    /\ error' = e
    /\ result' = result

\* A frame returning action a to its caller.
Return(a) ==
    IF Len(stack) = 1
    THEN /\ stack' = <<>>
         /\ status' = "done"
         /\ result' = a
         /\ error' = error
    ELSE /\ stack' = [Pop EXCEPT ![Len(stack) - 1].ret = a]
         /\ UNCHANGED <<status, result, error>>

(***************************************************************************)
(* The successor table: BaseNode::next and BaseNode::getNextNode.          *)
(***************************************************************************)
Labels == {"", "a"}                    \* the labels nodes are wired under

NoCall == [op |-> "none", node |-> Null, action |-> Absent, ret |-> Null,
           threw |-> FALSE]

\* successors[action] = node: the entry is created or overwritten.
InsertSuccessor(m, action, node) == IF Has(m, action) THEN m ELSE Put(m, action, node)
SetSuccessor(m, action, node) == Put(m, action, node)

\* What next hands back: return node, the node that was connected.
NextReturnsReceiver(n, node) == n
NextReturns(n, node) == node

\* n.next(node, action): null is refused; an entry already there is
\* overwritten with a warning; the connected node is returned.
next(n, node, action) ==
    /\ status = "idle"
    /\ Len(wiring) < MaxCalls
    /\ wiring' = Append(wiring, [node |-> n, target |-> node, label |-> action])
    /\ IF node = Null
       THEN /\ lastCall' = [op |-> "next", node |-> n, action |-> Some(action),
                            ret |-> Null, threw |-> TRUE]
            /\ UNCHANGED <<successors, warnings>>
       ELSE /\ warnings' = IF Has(successors[n], action)
                           THEN warnings \cup {"overwrite"}
                           ELSE warnings
            /\ successors' = [successors EXCEPT
                                 ![n] = SetSuccessor(@, action, node)]
            /\ lastCall' = [op |-> "next", node |-> n, action |-> Some(action),
                            ret |-> NextReturns(n, node), threw |-> FALSE]
    /\ UNCHANGED <<maxRetries, waitMillis, params, capturedValue, startNode,
                   runVarsButWarnings>>

\* n.next(node): the default label is the empty string.
nextDefault(n, node) == next(n, node, "")

\* action.value_or(""): the key an action is looked up under.
ActionKeyDefaultWord(action) == IF action.has THEN action.val ELSE "default"
ActionKey(action) == IF action.has THEN action.val ELSE ""

\* A lookup that falls back to the default label when the action is not
\* registered.
getNextNodeOrDefault(n, action) ==
    IF Has(successors[n], ActionKey(action))
    THEN successors[n][ActionKey(action)]
    ELSE IF Has(successors[n], "") THEN successors[n][""] ELSE Null

\* A lookup that stays on the node when the action is not registered.
getNextNodeOrSelf(n, action) ==
    IF Has(successors[n], ActionKey(action))
    THEN successors[n][ActionKey(action)]
    ELSE n

\* A lookup that refuses to hand a node back to itself.
getNextNodeUnlessSelf(n, action) ==
    IF Has(successors[n], ActionKey(action))
       /\ successors[n][ActionKey(action)] # n
    THEN successors[n][ActionKey(action)]
    ELSE Null

\* n.getNextNode(action): the node registered under the action's key, or
\* nullptr.
getNextNode(n, action) ==
    IF Has(successors[n], ActionKey(action))
    THEN successors[n][ActionKey(action)]
    ELSE Null

\* getNextNode warns when it finds nothing and the table is not empty.
LookupWarns(n, action) ==
    /\ ~Has(successors[n], ActionKey(action))
    /\ DOMAIN successors[n] # {}

\* A caller looking up a successor.
CallGetNextNode(n, action) ==
    /\ status = "idle"
    /\ lastCall' = [op |-> "getNextNode", node |-> n, action |-> action,
                    ret |-> getNextNode(n, action), threw |-> FALSE]
    /\ warnings' = IF LookupWarns(n, action)
                   THEN warnings \cup {"action_not_found"}
                   ELSE warnings
    /\ UNCHANGED <<cfgVars, wiring, runVarsButWarnings>>

(***************************************************************************)
(* The user hooks.  A hook's outcome is a record: ok says whether it       *)
(* returned or threw; v is the value returned, err the kind of exception.  *)
(***************************************************************************)
Ret(v)   == [ok |-> TRUE, v |-> v, err |-> ""]
Threw(e) == [ok |-> FALSE, v |-> 0, err |-> e]
\* the same for a hook that returns a std::string
ThrewString(e) == [ok |-> FALSE, v |-> "", err |-> e]

\* The constructor arguments of main's nodes: SetNumberNode(10) and
\* AddNumberNode(5).
number(n) == 10
numberToAdd(n) == 5

\* int capturedValue = -999, also what ResultCaptureNode::prep returns when
\* the Context holds no int under "currentValue".
NotCaptured == -999

\* std::any_cast<int>(c.at(key)) succeeds.
HoldsInt(c, key) == Has(c, key) /\ c[key].tag = "int"

\* prep(sharedContext): a user override may return any P or throw.
\* A step node reads Context key "cur" the way ResultCaptureNode::prep does.
\* A loop node keeps the default prep.
\* SetNumberNode and Flow keep the default prep; AddNumberNode::prep throws when
\* "currentValue" is missing or no int; ResultCaptureNode::prep then
\* returns -999.  MyStartNode keeps the default prep; MyEndNode::prep
\* returns "Preparing to end workflow"; an echo node's prep returns any
\* string.
PrepStrings == {"", "x", "Preparing to end workflow"}

PrepOutcomes(n, c) ==
    IF n \in ProbeNodes
    THEN {Ret(p) : p \in PrepVals} \cup {Threw("std")}
    ELSE IF n \in SetNumberNodes \cup FlowNodes \cup LoopNodes \cup MyStartNodes
    THEN {Ret(0)}
    ELSE IF n \in MyEndNodes THEN {Ret("Preparing to end workflow")}
    ELSE IF n \in EchoNodes THEN {Ret(s) : s \in PrepStrings}
    ELSE IF n \in AddNumberNodes
    THEN {IF HoldsInt(c, "currentValue") THEN Ret(c["currentValue"].i)
          ELSE Threw("std")}
    ELSE IF n \in CaptureNodes
    THEN {Ret(IF HoldsInt(c, "currentValue") THEN c["currentValue"].i
              ELSE NotCaptured)}
    ELSE {Ret(IF Has(c, "cur") THEN c["cur"].i ELSE 0)}

\* getParamOrDefault<int>(key, defaultValue): the node's param when it is
\* there and an int, the default otherwise.
getParamOrDefault(n, key, defaultValue) ==
    IF HoldsInt(params[n], key) THEN params[n][key].i ELSE defaultValue

\* getParamOrDefault warns when the param is there and no int.
ExecWarnings(n) ==
    IF n \in SetNumberNodes /\ Has(params[n], "multiplier")
       /\ ~HoldsInt(params[n], "multiplier")
    THEN {"bad_any_cast"} ELSE {}

\* exec(prepResult): a user override may return any E or throw.
\* A step node adds one to what it was handed, or fails.
\* A loop node returns 1.  MyStartNode::exec returns "started",
\* MyEndNode::exec returns nullptr; an echo node returns the string it was
\* handed, or fails.
\* Flow::exec: throw std::logic_error.
FlowExecOutcomes(f) == {Threw("std")}

\* BatchNode::exec: throw std::logic_error.
BatchExecOutcomes(n) == {Threw("std")}

\* BatchNode::execFallback: throw NeuralFlowException.
BatchExecFallbackOutcomes(n) == {Threw("std")}

\* BatchFlow::post: throw std::logic_error.
BatchFlowPostOutcomes(f) == {Threw("std")}

\* SetNumberNode::exec multiplies, AddNumberNode::exec adds,
\* ResultCaptureNode::exec returns nullptr.
ExecOutcomes(n, p) ==
    IF n \in ProbeNodes
    THEN {Ret(v) : v \in ExecVals} \cup {Threw(e) : e \in ErrKinds}
    ELSE IF n \in FlowNodes THEN FlowExecOutcomes(n)
    ELSE IF n \in BatchNodes THEN BatchExecOutcomes(n)
    ELSE IF n \in SetNumberNodes
    THEN {Ret(number(n) * getParamOrDefault(n, "multiplier", 1))}
    ELSE IF n \in AddNumberNodes THEN {Ret(p + numberToAdd(n))}
    ELSE IF n \in CaptureNodes THEN {Ret(0)}
    ELSE IF n \in LoopNodes THEN {Ret(1)}
    ELSE IF n \in MyStartNodes THEN {Ret("started")}
    ELSE IF n \in MyEndNodes THEN {Ret(0)}
    ELSE IF n \in EchoNodes THEN {Ret(p), ThrewString("std")}
    ELSE {Ret(p + 1), Threw("std")}

\* What exec leaves in the node itself: ResultCaptureNode::exec stores
\* prepResult in capturedValue and in params["capturedValue"].
ParamsAfterExec(n, p) ==
    IF n \in CaptureNodes THEN Put(params[n], "capturedValue", AnyInt(p))
    ELSE params[n]

CapturedAfterExec(n, p) ==
    IF n \in CaptureNodes THEN [capturedValue EXCEPT ![n] = p]
    ELSE capturedValue

\* execFallback(prepResult, lastException): the default throws a
\* NeuralFlowException; a user override may return an E or throw.
\* A step node keeps the default.  An echo node's fallback returns the
\* string it was handed, or fails.
FallbackOutcomes(n, p, lastErr) ==
    IF n \in ProbeNodes
    THEN {Ret(9), Threw("std")}
    ELSE IF n \in BatchNodes THEN BatchExecFallbackOutcomes(n)
    ELSE IF n \in EchoNodes THEN {Ret(p), ThrewString("std")}
    ELSE {Threw("std")}

\* The action a loop node's post returns whenever it runs: P returns "a",
\* Q returns no action.
LoopAction(n) == IF n = "P" THEN Some("a") ELSE Absent

\* return e > 20 ? "over_20" : nullopt, and a post that never branches.
SetNumberActionNever(e) == Absent
SetNumberAction(e) == IF e > 20 THEN Some("over_20") ELSE Absent

\* post(sharedContext, prepResult, execResult): a user override may change
\* the Context, and returns an action or throws.  The probe records what it
\* was handed.
\* A step node stores its result under Context key "cur" and returns any
\* action.
\* SetNumberNode::post stores e under "currentValue" and branches on it,
\* AddNumberNode::post stores e and returns "added", ResultCaptureNode
\* keeps the default post.  A loop node's post stores the node's name under
\* "last" and returns the node's action.  MyStartNode::post returns e as
\* the action; MyEndNode::post stores p under "end_node_prep_result"; an
\* echo node's post stores p and e.
PostOutcomes(n, c, p, e) ==
    IF n \in ProbeNodes
    THEN {[ok |-> TRUE, a |-> a,
           ctx |-> Put(Put(c, "p", AnyInt(p)), "e", AnyInt(e))] : a \in PostActions}
         \cup {[ok |-> FALSE, a |-> Absent, ctx |-> c]}
    ELSE IF n \in SetNumberNodes
    THEN {[ok |-> TRUE, a |-> SetNumberAction(e),
           ctx |-> Put(c, "currentValue", AnyInt(e))]}
    ELSE IF n \in AddNumberNodes
    THEN {[ok |-> TRUE, a |-> Some("added"),
           ctx |-> Put(c, "currentValue", AnyInt(e))]}
    ELSE IF n \in CaptureNodes
    THEN {[ok |-> TRUE, a |-> Absent, ctx |-> c]}
    ELSE IF n \in LoopNodes
    THEN {[ok |-> TRUE, a |-> LoopAction(n), ctx |-> Put(c, "last", AnyStr(n))]}
    ELSE IF n \in MyStartNodes
    THEN {[ok |-> TRUE, a |-> Some(e), ctx |-> c]}
    ELSE IF n \in MyEndNodes
    THEN {[ok |-> TRUE, a |-> Absent,
           ctx |-> Put(c, "end_node_prep_result", AnyStr(p))]}
    ELSE IF n \in EchoNodes
    THEN {[ok |-> TRUE, a |-> Absent,
           ctx |-> Put(Put(c, "p", AnyStr(p)), "e", AnyStr(e))]}
    ELSE {[ok |-> TRUE, a |-> a, ctx |-> Put(c, "cur", AnyInt(e))] : a \in PostActions}

(***************************************************************************)
(* BaseNode::run and BaseNode::internalRun with Node::internalExec.        *)
(***************************************************************************)
\* A run() that refuses a node with successors instead of warning.
RunRefusingSuccessors(n) ==
    /\ status = "idle"
    /\ IF DOMAIN successors[n] # {}
       THEN /\ status' = "error"
            /\ error' = "run"
            /\ UNCHANGED stack
       ELSE /\ status' = "running"
            /\ stack' = <<Frame(n)>>
            /\ UNCHANGED error
    /\ UNCHANGED <<cfgVars, apiVars, currentRetry, ctx, result, trace, warnings>>

\* BaseNode::run: warns when the node has successors, then internalRun.
Run(n) ==
    /\ status = "idle"
    /\ status' = "running"
    /\ stack' = <<Frame(n)>>
    /\ warnings' = IF DOMAIN successors[n] # {}
                   THEN warnings \cup {"run_with_successors"}
                   ELSE warnings
    /\ UNCHANGED <<cfgVars, apiVars, currentRetry, ctx, result, error, trace>>

\* The test of the retry loop: for (...; currentRetry < maxRetries; ...).
LoopTestOffByOne(n, r) == r <= maxRetries[n]
LoopTest(n, r) == r < maxRetries[n]

\* Where internalExec goes with currentRetry = r: another attempt, or the
\* fallback after the loop.
PcOfLoop(n, r) == IF LoopTest(n, r) THEN "exec" ELSE "fallback"

\* A failure of prep taken for a failed attempt: the fallback is called
\* with it.
PrepFailureHandedToFallback ==
    /\ stack' = SetTop([Top EXCEPT !.lastErr = "prep failed", !.pc = "fallback"])
    /\ UNCHANGED <<status, result, error, currentRetry>>

\* P prepRes = prep(sharedContext) stands outside every try block: an
\* exception of prep leaves internalRun.
PrepFailed ==
    /\ Throw("prep")
    /\ UNCHANGED currentRetry

\* P prepRes = prep(sharedContext); then internalExec starts its loop.
NodePrep ==
    /\ At("Node", "prep")
    /\ LET n == Top.node IN
       \E o \in PrepOutcomes(n, ctx) :
          /\ trace' = Log(Event(IF o.ok THEN "prep" ELSE "prep_throw", n, o.v))
          /\ IF o.ok
             THEN /\ stack' = SetTop([Top EXCEPT !.prepRes = o.v,
                                                  !.pc = PcOfLoop(n, 0)])
                  /\ currentRetry' = [currentRetry EXCEPT ![n] = 0]
                  /\ UNCHANGED <<status, result, error>>
             ELSE PrepFailed
    /\ UNCHANGED <<cfgVars, apiVars, ctx, warnings>>

\* The message internalExec keeps of a failed attempt.
CapturedMessage(e) ==
    IF e = "std" THEN "exec failed"
    ELSE "Non-standard exception caught during exec"

\* The wait between attempts: only if another attempt remains.
ShouldSleepAfterLast(n) == waitMillis[n] > 0
ShouldSleep(n) ==
    currentRetry[n] < maxRetries[n] - 1 /\ waitMillis[n] > 0

\* ++currentRetry and the loop test.
PcAfterAttempt(n) == PcOfLoop(n, currentRetry[n] + 1)

\* One turn of the retry loop: return this->exec(prepResult), or catch.
NodeExec ==
    /\ At("Node", "exec")
    /\ LET n == Top.node IN
       /\ \E o \in ExecOutcomes(n, Top.prepRes) :
             /\ trace' = Log(Event(IF o.ok THEN "exec" ELSE "exec_throw", n, o.v))
             /\ IF o.ok
                THEN /\ stack' = SetTop([Top EXCEPT !.execRes = o.v, !.pc = "post"])
                     /\ params' = [params EXCEPT
                                      ![n] = ParamsAfterExec(n, Top.prepRes)]
                     /\ capturedValue' = CapturedAfterExec(n, Top.prepRes)
                     /\ UNCHANGED currentRetry
                ELSE IF ShouldSleep(n)
                THEN /\ stack' = SetTop([Top EXCEPT
                                   !.lastErr = CapturedMessage(o.err),
                                   !.pc = "sleep"])
                     /\ UNCHANGED <<currentRetry, params, capturedValue>>
                ELSE /\ stack' = SetTop([Top EXCEPT
                                   !.lastErr = CapturedMessage(o.err),
                                   !.pc = PcAfterAttempt(n)])
                     /\ currentRetry' = [currentRetry EXCEPT ![n] = @ + 1]
                     /\ UNCHANGED <<params, capturedValue>>
       /\ warnings' = warnings \cup ExecWarnings(n)
    /\ UNCHANGED <<maxRetries, waitMillis, successors, startNode, apiVars, ctx,
                   status, result, error>>

\* std::this_thread::sleep_for(waitMillis), then the next turn of the loop.
NodeSleep ==
    /\ At("Node", "sleep")
    /\ LET n == Top.node IN
       /\ trace' = Log(Event("sleep", n, waitMillis[n]))
       /\ stack' = SetTop([Top EXCEPT !.pc = PcAfterAttempt(n)])
       /\ currentRetry' = [currentRetry EXCEPT ![n] = @ + 1]
    /\ UNCHANGED <<cfgVars, apiVars, ctx, status, result, error, warnings>>

\* A fallback failure swallowed: internalExec returns a default-constructed
\* E and internalRun goes on to post.
FallbackFailureSwallowed ==
    /\ stack' = SetTop([Top EXCEPT !.execRes = 0, !.pc = "post"])
    /\ UNCHANGED <<status, result, error>>

\* catch (const std::exception& fallbackException) { throw NeuralFlowException(...) }:
\* the failure of execFallback leaves internalExec and internalRun.
FallbackFailed == Throw("fallback")

\* After the loop: execFallback, any exception of it wrapped and thrown.
NodeFallback ==
    /\ At("Node", "fallback")
    /\ LET n == Top.node IN
       IF Top.lastErr = ""
       THEN /\ Throw("fallback")
            /\ UNCHANGED trace
       ELSE \E o \in FallbackOutcomes(n, Top.prepRes, Top.lastErr) :
               /\ trace' = Log(Event(IF o.ok THEN "fallback" ELSE "fallback_throw",
                                     n, o.v))
               /\ IF o.ok
                  THEN /\ stack' = SetTop([Top EXCEPT !.execRes = o.v, !.pc = "post"])
                       /\ UNCHANGED <<status, result, error>>
                  ELSE FallbackFailed
    /\ UNCHANGED <<cfgVars, apiVars, currentRetry, ctx, warnings>>

\* What post is handed as prepResult: internalRun has passed
\* std::move(prepRes) to internalExec by value before it calls post.  Moving
\* from an int or a nullptr_t leaves it as it was.
PostPrepArg(n, p) == p

\* A std::string that has been moved from is in a valid but unspecified
\* state: the standard libraries leave it empty, the standard also lets it
\* keep its value.
MovedFromString(s) == {"", s}

\* The values post may be handed as prepResult after the move.
PostPrepArgs(n, p) ==
    IF n \in StringNodes THEN MovedFromString(p) ELSE {PostPrepArg(n, p)}

\* Context& sharedContext: the hooks write through a reference to the
\* caller's Context, so what a hook wrote is what the caller holds after.
CopiedContext(c, written) == c
SharedContext(c, written) == written

\* return post(sharedContext, prepRes, execRes).
NodePost ==
    /\ At("Node", "post")
    /\ LET n == Top.node IN
       \E q \in PostPrepArgs(n, Top.prepRes) :
       \E o \in PostOutcomes(n, ctx, q, Top.execRes) :
          /\ trace' = Log(ActionEvent(IF o.ok THEN "post" ELSE "post_throw",
                                       n, o.a))
          /\ ctx' = SharedContext(ctx, o.ctx)
          /\ IF o.ok THEN Return(o.a) ELSE Throw("post")
    /\ UNCHANGED <<cfgVars, apiVars, currentRetry, warnings>>

(***************************************************************************)
(* BatchNode: BaseNode::internalRun with BatchNode::internalExec.          *)
(***************************************************************************)
Items == {1, 2}
ItemSeqs == UNION {[1..k -> Items] : k \in 0..MaxItems}

\* prep of the batch node: any item sequence, or an exception.
BatchPrepOutcomes(n, c) ==
    {[ok |-> TRUE, items |-> q] : q \in ItemSeqs}
    \cup {[ok |-> FALSE, items |-> <<>>]}

\* execItem(item): a result made from the item, or an exception.
ExecItemOutcomes(n, item) ==
    {Ret(10 * item + 1)} \cup {Threw(e) : e \in ErrKinds}

\* execItemFallback(item, lastException): the default throws; an override
\* may return a result made from the item.
ItemFallbackOutcomes(n, item, lastErr) ==
    {Ret(10 * item + 9), Threw("std")}

\* post of the batch node: records the sizes of what it was handed.
BatchPostOutcomes(n, c, p, e) ==
    {[ok |-> TRUE, a |-> a,
      ctx |-> Put(Put(c, "p_size", AnyInt(Len(p))), "e_size", AnyInt(Len(e)))]
        : a \in PostActions}

\* Where the item's retry loop goes with currentRetry = r.
PcOfItemLoop(n, r) == IF LoopTest(n, r) THEN "execItem" ELSE "itemFallback"

\* An item's retry loop going on from where the loop of the item before
\* left the counter.
FirstRetryCarriedOver(n) == currentRetry[n]

\* for (this->currentRetry = 0; ...): the value the counter starts every
\* item's retry loop with.
FirstRetry(n) == 0

\* results.push_back(std::move(itemResult)).
PushFront(results, itemResult) == <<itemResult>> \o results
PushBack(results, itemResult) == Append(results, itemResult)

\* The frame once the current item has its result: it is appended, and
\* the range-for goes on to the next item or internalExec returns results.
ItemDone(fr, n, itemResult) ==
    IF fr.itemIndex < Len(fr.batchPrepResult)
    THEN [fr EXCEPT !.results = PushBack(@, itemResult),
                    !.itemIndex = @ + 1,
                    !.lastErr = "",
                    !.pc = PcOfItemLoop(n, FirstRetry(n))]
    ELSE [fr EXCEPT !.results = PushBack(@, itemResult), !.pc = "post"]

\* An item's fallback failure swallowed: the item keeps its
\* default-constructed result and the batch goes on.
ItemFallbackSwallowed ==
    /\ stack' = SetTop(ItemDone(Top, Top.node, 0))
    /\ currentRetry' = [currentRetry EXCEPT ![Top.node] = FirstRetry(Top.node)]
    /\ UNCHANGED <<status, result, error>>

\* catch (const std::exception& fallbackEx) { throw NeuralFlowException(...) }:
\* the failure of an item's fallback leaves internalExec.
ItemFallbackFailed ==
    /\ Throw("item_fallback")
    /\ UNCHANGED currentRetry

\* prep, then internalExec: an empty batch returns {} at once.
BatchNodePrep ==
    /\ At("BatchNode", "prep")
    /\ LET n == Top.node IN
       \E o \in BatchPrepOutcomes(n, ctx) :
          /\ trace' = Log(Event(IF o.ok THEN "prep" ELSE "prep_throw", n,
                                Len(o.items)))
          /\ IF o.ok
             THEN /\ stack' = SetTop(
                        IF o.items = <<>>
                        THEN [Top EXCEPT !.batchPrepResult = o.items,
                                         !.results = <<>>, !.pc = "post"]
                        ELSE [Top EXCEPT !.batchPrepResult = o.items,
                                         !.results = <<>>, !.itemIndex = 1,
                                         !.lastErr = "",
                                         !.pc = PcOfItemLoop(n, FirstRetry(n))])
                  /\ currentRetry' = IF o.items = <<>> THEN currentRetry
                                     ELSE [currentRetry EXCEPT ![n] = FirstRetry(n)]
                  /\ UNCHANGED <<status, result, error>>
             ELSE /\ Throw("prep")
                  /\ UNCHANGED currentRetry
    /\ UNCHANGED <<cfgVars, apiVars, ctx, warnings>>

\* One turn of the item's retry loop: itemResult = execItem(item), or catch.
BatchExecItem ==
    /\ At("BatchNode", "execItem")
    /\ LET n == Top.node
           i == Top.itemIndex
       IN  \E o \in ExecItemOutcomes(n, Top.batchPrepResult[i]) :
             /\ trace' = Log(ItemEvent(IF o.ok THEN "execItem" ELSE "execItem_throw",
                                       n, i, o.v))
             /\ IF o.ok
                THEN /\ stack' = SetTop(ItemDone(Top, n, o.v))
                     /\ currentRetry' =
                           IF i < Len(Top.batchPrepResult)
                           THEN [currentRetry EXCEPT ![n] = FirstRetry(n)]
                           ELSE currentRetry
                ELSE IF ShouldSleep(n)
                THEN /\ stack' = SetTop([Top EXCEPT
                                   !.lastErr = CapturedMessage(o.err),
                                   !.pc = "itemSleep"])
                     /\ UNCHANGED currentRetry
                ELSE /\ stack' = SetTop([Top EXCEPT
                                   !.lastErr = CapturedMessage(o.err),
                                   !.pc = PcOfItemLoop(n, currentRetry[n] + 1)])
                     /\ currentRetry' = [currentRetry EXCEPT ![n] = @ + 1]
    /\ UNCHANGED <<cfgVars, apiVars, ctx, status, result, error, warnings>>

\* sleep_for(waitMillis) between two attempts on an item.
BatchItemSleep ==
    /\ At("BatchNode", "itemSleep")
    /\ LET n == Top.node IN
       /\ trace' = Log(ItemEvent("sleep", n, Top.itemIndex, waitMillis[n]))
       /\ stack' = SetTop([Top EXCEPT !.pc = PcOfItemLoop(n, currentRetry[n] + 1)])
       /\ currentRetry' = [currentRetry EXCEPT ![n] = @ + 1]
    /\ UNCHANGED <<cfgVars, apiVars, ctx, status, result, error, warnings>>

\* if (!itemSuccess): execItemFallback, any exception of it wrapped and
\* thrown out of internalExec.
BatchItemFallback ==
    /\ At("BatchNode", "itemFallback")
    /\ LET n == Top.node
           i == Top.itemIndex
       IN  IF Top.lastErr = ""
           THEN /\ Throw("item_fallback")
                /\ UNCHANGED <<trace, currentRetry>>
           ELSE \E o \in ItemFallbackOutcomes(n, Top.batchPrepResult[i], Top.lastErr) :
                  /\ trace' = Log(ItemEvent(IF o.ok THEN "itemFallback"
                                            ELSE "itemFallback_throw", n, i, o.v))
                  /\ IF o.ok
                     THEN /\ stack' = SetTop(ItemDone(Top, n, o.v))
                          /\ currentRetry' =
                                IF i < Len(Top.batchPrepResult)
                                THEN [currentRetry EXCEPT ![n] = FirstRetry(n)]
                                ELSE currentRetry
                          /\ UNCHANGED <<status, result, error>>
                     ELSE ItemFallbackFailed
    /\ UNCHANGED <<cfgVars, apiVars, ctx, warnings>>

\* What post is handed as prepResult: the vector internalRun moved into
\* internalExec, which the move has left empty.
MovedFromVector(items) == <<>>

\* return post(sharedContext, prepRes, execRes).
BatchNodePost ==
    /\ At("BatchNode", "post")
    /\ LET n == Top.node IN
       \E o \in BatchPostOutcomes(n, ctx, MovedFromVector(Top.batchPrepResult),
                                  Top.results) :
          /\ trace' = Log(ActionEvent("post", n, o.a))
          /\ ctx' = o.ctx
          /\ Return(o.a)
    /\ UNCHANGED <<cfgVars, apiVars, currentRetry, warnings>>

(***************************************************************************)
(* Flow::orchestrate, Flow::internalRun and BatchFlow::internalRun.        *)
(***************************************************************************)
IsFlowFrame == Running /\ KindOf(Top.node) \in {"Flow", "BatchFlow"}

\* m.insert(extra.begin(), extra.end()): std::map::insert adds the entries
\* whose key m does not hold yet and leaves the entries m holds as they are.
InsertRange(m, extra) ==
    [k \in DOMAIN m \cup DOMAIN extra |-> IF Has(m, k) THEN m[k] ELSE extra[k]]

\* Params currentRunParams = this->params; then the insert of initialParams.
RunParams(f, initialParams) == InsertRange(params[f], initialParams)

\* The node invocations made so far in the run.
Invocations == Cardinality({i \in 1..Len(trace) : trace[i].op = "run"})

\* orchestrate with its early return handing back the default label.
OrchestrateReturningDefaultLabel(fr, initialParams) ==
    IF startNode[fr.node] = Null
    THEN [fr EXCEPT !.pc = "orchestrated", !.lastAction = Some(""),
                    !.initialParams = initialParams]
    ELSE [fr EXCEPT !.pc = "loop", !.currentNode = startNode[fr.node],
                    !.lastAction = Absent, !.initialParams = initialParams,
                    !.currentRunParams = RunParams(fr.node, initialParams)]

\* The frame of flow f as orchestrate(sharedContext, initialParams) begins:
\* with no start node it returns nullopt at once (pc "orchestrated"),
\* otherwise it enters its loop.
Orchestrate(fr, initialParams) ==
    IF startNode[fr.node] = Null
    THEN [fr EXCEPT !.pc = "orchestrated", !.lastAction = Absent,
                    !.initialParams = initialParams]
    ELSE [fr EXCEPT !.pc = "loop", !.currentNode = startNode[fr.node],
                    !.lastAction = Absent, !.initialParams = initialParams,
                    !.currentRunParams = RunParams(fr.node, initialParams)]

\* Flow::internalRun: prep (the default, which reads nothing), then
\* orchestrate(sharedContext, {}).
FlowEnter ==
    /\ At("Flow", "prep")
    /\ stack' = SetTop(Orchestrate(Top, EmptyMap))
    /\ trace' = Log(Event("orchestrate", Top.node, 0))
    /\ warnings' = IF startNode[Top.node] = Null
                   THEN warnings \cup {"no_start"}
                   ELSE warnings
    /\ UNCHANGED <<cfgVars, apiVars, currentRetry, ctx, status, result, error>>

\* lastAction = currentNode->internalRun(sharedContext) is a plain call:
\* orchestrate goes on only when it has returned.  NotAwaitingCall is an
\* orchestrate that goes round its loop without waiting for it.
NotAwaitingCall(fr) == [fr EXCEPT !.pc = "loop"]
AwaitingCall(fr) == [fr EXCEPT !.pc = "called"]

\* A setParamsInternal that adds newParams to the Params the node holds and
\* keeps the node's other keys.
setParamsInternalMerging(n, newParams) == InsertRange(newParams, params[n])

\* setParamsInternal(newParams): params = newParams.
setParamsInternal(n, newParams) == newParams

\* One turn of while (currentNode != nullptr): push the run's Params into
\* the current node and call its internalRun; after the loop orchestrate
\* returns lastAction.
OrchestrateLoop ==
    /\ IsFlowFrame
    /\ Top.pc = "loop"
    /\ IF Top.currentNode # Null
       THEN /\ Top.currentNode \in LoopNodes \/ Invocations < MaxSteps
            /\ params' = [params EXCEPT
                             ![Top.currentNode] =
                                 setParamsInternal(Top.currentNode,
                                                   Top.currentRunParams)]
            /\ stack' = Append(SetTop(AwaitingCall(Top)), Frame(Top.currentNode))
            /\ trace' = Log(Event("run", Top.currentNode, 0))
       ELSE /\ stack' = SetTop([Top EXCEPT !.pc = "orchestrated"])
            /\ UNCHANGED <<params, trace>>
    /\ UNCHANGED <<maxRetries, waitMillis, successors, capturedValue, startNode,
                   apiVars, currentRetry, ctx, status, result, error, warnings>>

\* lastAction = the action internalRun returned;
\* currentNode = currentNode->getNextNode(lastAction).
OrchestrateDispatch ==
    /\ IsFlowFrame
    /\ Top.pc = "called"
    /\ stack' = SetTop([Top EXCEPT
                          !.pc = "loop",
                          !.lastAction = Top.ret,
                          !.currentNode = getNextNode(Top.currentNode, Top.ret)])
    /\ warnings' = IF LookupWarns(Top.currentNode, Top.ret)
                   THEN warnings \cup {"action_not_found"}
                   ELSE warnings
    /\ UNCHANGED <<cfgVars, apiVars, currentRetry, ctx, status, result, error,
                   trace>>

\* Flow::post: return execResult; and a post that returns no action.
FlowPostDroppingAction(execResult) == Absent
FlowPostAction(execResult) == execResult

\* Flow::internalRun after orchestrate: return post(ctx, nullptr, orchRes).
\* post is virtual: Flow::post returns execResult, BatchFlow::post throws
\* std::logic_error.
FlowPost ==
    /\ At("Flow", "orchestrated")
    /\ IF Top.node \in BatchFlows
       THEN /\ \E o \in BatchFlowPostOutcomes(Top.node) :
                  trace' = Log(ActionEvent(IF o.ok THEN "post" ELSE "post_throw",
                                           Top.node, Absent))
            /\ Throw("post")
       ELSE /\ trace' = Log(ActionEvent("flow_post", Top.node,
                                         FlowPostAction(Top.lastAction)))
            /\ Return(FlowPostAction(Top.lastAction))
    /\ UNCHANGED <<cfgVars, apiVars, currentRetry, ctx, warnings>>

(***************************************************************************)
(* BatchFlow::internalRun.                                                 *)
(***************************************************************************)
ParamMaps ==
    {EmptyMap} \cup {[k \in {"k"} |-> AnyInt(v)] : v \in {1, 2}}

\* prepBatch(sharedContext): any sequence of parameter sets.
PrepBatchOutcomes(f, c) ==
    UNION {[1..k -> ParamMaps] : k \in 0..MaxBatch}

\* postBatch(sharedContext, batchPrepResult): records the number of
\* parameter sets it was handed and returns any action.
PostBatchOutcomes(f, c, batchParamsList) ==
    {[a |-> a, ctx |-> Put(c, "batches", AnyInt(Len(batchParamsList)))]
        : a \in PostActions}

\* std::vector<Params> batchParamsList = prepBatch(sharedContext).
BatchFlowPrep ==
    /\ At("BatchFlow", "prep")
    /\ \E list \in PrepBatchOutcomes(Top.node, ctx) :
          /\ stack' = SetTop([Top EXCEPT !.batchParamsList = list,
                                         !.batchIndex = 1, !.pc = "batch"])
          /\ trace' = Log(Event("prepBatch", Top.node, Len(list)))
          /\ warnings' = IF list = <<>>
                         THEN warnings \cup {"empty_batch"}
                         ELSE warnings
    /\ UNCHANGED <<cfgVars, apiVars, currentRetry, ctx, status, result, error>>

\* The range-for over batchParamsList: whether a parameter set is left.
MoreBatchesButLast(fr) == fr.batchIndex < Len(fr.batchParamsList)
MoreBatches(fr) == fr.batchIndex <= Len(fr.batchParamsList)

\* for (const auto& batchParams : batchParamsList)
\*     orchestrate(sharedContext, batchParams);
\* and after the loop the call of postBatch.
BatchFlowNext ==
    /\ At("BatchFlow", "batch")
    /\ IF MoreBatches(Top)
       THEN /\ stack' = SetTop(Orchestrate(Top, Top.batchParamsList[Top.batchIndex]))
            /\ trace' = Log(ItemEvent("orchestrate", Top.node, Top.batchIndex, 0))
            /\ warnings' = IF startNode[Top.node] = Null
                           THEN warnings \cup {"no_start"}
                           ELSE warnings
       ELSE /\ stack' = SetTop([Top EXCEPT !.pc = "postBatch"])
            /\ UNCHANGED <<trace, warnings>>
    /\ UNCHANGED <<cfgVars, apiVars, currentRetry, ctx, status, result, error>>

\* orchestrate has returned: its action is dropped, the next parameter set
\* is taken.
BatchFlowAdvance ==
    /\ At("BatchFlow", "orchestrated")
    /\ stack' = SetTop([Top EXCEPT !.batchIndex = @ + 1, !.pc = "batch"])
    /\ trace' = Log(ActionEvent("orchestrated", Top.node, Top.lastAction))
    /\ UNCHANGED <<cfgVars, apiVars, currentRetry, ctx, status, result, error,
                   warnings>>

\* return postBatch(sharedContext, batchParamsList).
BatchFlowPost ==
    /\ At("BatchFlow", "postBatch")
    /\ \E o \in PostBatchOutcomes(Top.node, ctx, Top.batchParamsList) :
          /\ trace' = Log([ActionEvent("postBatch", Top.node, o.a)
                              EXCEPT !.v = Len(Top.batchParamsList)])
          /\ ctx' = o.ctx
          /\ Return(o.a)
    /\ UNCHANGED <<cfgVars, apiVars, currentRetry, warnings>>

(***************************************************************************)
(* SpecRetry: one run() of a node constructed with any permitted           *)
(* (maxRetries, waitMillis).                                               *)
(***************************************************************************)
InitRun ==
    /\ currentRetry = [n \in RetryNodes |-> 0]
    /\ ctx = EmptyMap
    /\ stack = <<>>
    /\ status = "idle"
    /\ result = Absent
    /\ error = ""
    /\ trace = <<>>
    /\ warnings = {}
    /\ lastCall = NoCall
    /\ wiring = <<>>
    /\ capturedValue = [n \in CaptureNodes |-> NotCaptured]

\* The nodes of S constructed with any permitted (retries,
\* waitMilliseconds), the others with the defaults (1, 0); nothing wired.
InitConstructed(S) ==
    /\ \E r \in [S -> 1..MaxRetries] :
          maxRetries = [n \in RetryNodes |-> IF n \in S THEN r[n] ELSE 1]
    /\ \E w \in [S -> 0..MaxWait] :
          waitMillis = [n \in RetryNodes |-> IF n \in S THEN w[n] ELSE 0]
    /\ successors = [n \in AllNodes |-> EmptyMap]
    /\ params = [n \in AllNodes |-> EmptyMap]
    /\ startNode = [f \in FlowNodes |-> Null]

InitRetry ==
    /\ InitConstructed(ProbeNodes)
    /\ InitRun

RunProbe == \E n \in ProbeNodes : Run(n)

NextRetry ==
    \/ RunProbe
    \/ NodePrep
    \/ NodeExec
    \/ NodeSleep
    \/ NodeFallback
    \/ NodePost

SpecRetry == InitRetry /\ [][NextRetry]_vars

(***************************************************************************)
(* Reading the history.                                                    *)
(***************************************************************************)
Positions(op, n) ==
    {i \in 1..Len(trace) : trace[i].op = op /\ trace[i].node = n}
Count(op, n) == Cardinality(Positions(op, n))

AttemptOps  == {"exec", "exec_throw"}
FallbackOps == {"fallback", "fallback_throw"}

\* The number of the attempt made at position i of the history.
AttemptNo(i, n) ==
    Cardinality({j \in 1..i : trace[j].node = n /\ trace[j].op \in AttemptOps})

FallbackCalls(n) == Count("fallback", n) + Count("fallback_throw", n)

\* The time slept right after position i of the history.
DelayAfter(i) ==
    IF i < Len(trace) /\ trace[i + 1].op = "sleep" THEN trace[i + 1].v ELSE 0

\* Every sleep of n lasts waitMillis and directly follows a failed attempt.
SleepsAreRetryWaits(n) ==
    \A j \in Positions("sleep", n) :
        /\ trace[j].v = waitMillis[n]
        /\ j > 1 /\ trace[j - 1].op = "exec_throw" /\ trace[j - 1].node = n

\* internalExec of n has returned or thrown after prep returned.
ExecPhaseOver(n) ==
    /\ Count("prep", n) = 1
    /\ \/ status \in {"done", "error"}
       \/ Running /\ Top.node = n /\ Top.pc = "post"

(***************************************************************************)
(* C1: a node with maxRetries = R whose execute fails on every attempt:    *)
(* one executeWithRetry calls execute exactly R times, then fallback        *)
(* exactly once, and waits waitMillis between each two consecutive         *)
(* attempts (R - 1 waits) and not after the last failed attempt.           *)
(***************************************************************************)
C1_AllAttemptsFail ==
    \A n \in ProbeNodes :
        (ExecPhaseOver(n) /\ Count("exec", n) = 0) =>
            /\ Count("exec_throw", n) = maxRetries[n]
            /\ FallbackCalls(n) = 1
            /\ \A i \in Positions("exec_throw", n) :
                  IF AttemptNo(i, n) < maxRetries[n]
                  THEN /\ DelayAfter(i) = waitMillis[n]
                       /\ \E j \in {i + 1, i + 2} :
                             j <= Len(trace) /\ trace[j].op = "exec_throw"
                  ELSE i < Len(trace) /\ trace[i + 1].op \in FallbackOps
            /\ SleepsAreRetryWaits(n)
            /\ Count("sleep", n) =
                  IF waitMillis[n] > 0 THEN maxRetries[n] - 1 ELSE 0

C1_Witness ==
    /\ status = "done"
    /\ Count("exec", "N") = 0
    /\ Count("exec_throw", "N") = 3
    /\ Count("sleep", "N") = 2
    /\ Count("fallback", "N") = 1

(***************************************************************************)
(* C2: execute fails on attempts 1..k-1 and succeeds on attempt k <= R:    *)
(* execute is called exactly k times, fallback never, there are k - 1      *)
(* waits, and the value of the k-th attempt is the value returned.         *)
(***************************************************************************)
C2_SuccessOnAttemptK ==
    \A n \in ProbeNodes :
        Count("exec", n) = 1 =>
            LET k == Count("exec_throw", n) + 1
                s == CHOOSE i \in Positions("exec", n) : TRUE
            IN  /\ k <= maxRetries[n]
                /\ AttemptNo(s, n) = k
                /\ \A j \in (s + 1)..Len(trace) : trace[j].op \notin AttemptOps
                /\ FallbackCalls(n) = 0
                /\ SleepsAreRetryWaits(n)
                /\ \A i \in Positions("exec_throw", n) :
                      DelayAfter(i) = waitMillis[n]
                /\ Count("sleep", n) = IF waitMillis[n] > 0 THEN k - 1 ELSE 0
                /\ (Running /\ Top.pc = "post") => Top.execRes = trace[s].v
                /\ status = "done" => ctx["e"] = AnyInt(trace[s].v)

C2_Witness ==
    /\ status = "done"
    /\ Count("exec", "N") = 1
    /\ Count("exec_throw", "N") = 2
    /\ Count("sleep", "N") = 2
    /\ trace[Len(trace) - 1].op = "exec"

\* The calls of post on n, returned or thrown.
PostOps == {"post", "post_throw"}
PostCalls(n) == Count("post", n) + Count("post_throw", n)

\* The positions at which internalExec of n came by its result.
ResultPositions(n) == Positions("exec", n) \cup Positions("fallback", n)

(***************************************************************************)
(* C11: a node invocation goes prepare -> execute attempts -> success or   *)
(* fallback -> postProcess.  prepare runs once and first; fallback runs    *)
(* only after maxRetries failed attempts and no successful one; post runs  *)
(* once exactly when an attempt succeeded or fallback returned, and is     *)
(* handed that value; a failing fallback ends the invocation in an error   *)
(* without post.  An invocation ends only after post or with an error.     *)
(***************************************************************************)
C11_NodeStateMachine ==
    \A n \in ProbeNodes :
        /\ Len(trace) > 0 => trace[1].op \in {"prep", "prep_throw"}
        /\ Count("prep", n) + Count("prep_throw", n) <= 1
        /\ \A i \in 1..Len(trace) :
              trace[i].op \in AttemptOps =>
                 /\ AttemptNo(i, n) <= maxRetries[n]
                 /\ \A j \in 1..(i - 1) : trace[j].op # "exec"
        /\ FallbackCalls(n) <= 1
        /\ \A i \in 1..Len(trace) :
              trace[i].op \in FallbackOps =>
                 /\ Count("exec_throw", n) = maxRetries[n]
                 /\ Count("exec", n) = 0
                 /\ \A j \in (i + 1)..Len(trace) : trace[j].op \in PostOps
        /\ PostCalls(n) <= 1
        /\ Cardinality(ResultPositions(n)) <= 1
        /\ \A i \in 1..Len(trace) :
              trace[i].op \in PostOps =>
                 /\ i - 1 \in ResultPositions(n)
                 /\ i = Len(trace)
                 /\ trace[i].op = "post" => ctx["e"] = AnyInt(trace[i - 1].v)
        /\ (ResultPositions(n) # {} /\ status \in {"done", "error"}) =>
              PostCalls(n) = 1
        /\ (Running /\ Top.pc = "post") =>
              \A i \in ResultPositions(n) : Top.execRes = trace[i].v
        /\ Count("fallback_throw", n) = 1 =>
              /\ status = "error" /\ error = "fallback"
              /\ PostCalls(n) = 0
              /\ trace[Len(trace)].op = "fallback_throw"
        /\ status = "done" =>
              /\ Count("post", n) = 1
              /\ result = trace[Len(trace)].a
        /\ status = "error" =>
              /\ trace[Len(trace)].op \in {"prep_throw", "fallback_throw", "post_throw"}
              /\ error = "fallback" <=> trace[Len(trace)].op = "fallback_throw"

\* Three failed attempts, then a fallback that fails too.
C11_Witness ==
    /\ status = "error"
    /\ error = "fallback"
    /\ Count("prep", "N") = 1
    /\ Count("exec_throw", "N") = 3
    /\ Count("fallback_throw", "N") = 1
    /\ PostCalls("N") = 0

(***************************************************************************)
(* SpecWire: wiring calls and successor lookups on freshly made nodes.     *)
(***************************************************************************)
InitWire ==
    /\ maxRetries = [n \in RetryNodes |-> 1]
    /\ waitMillis = [n \in RetryNodes |-> 0]
    /\ successors = [n \in AllNodes |-> EmptyMap]
    /\ params = [n \in AllNodes |-> EmptyMap]
    /\ startNode = [f \in FlowNodes |-> Null]
    /\ InitRun

WireNext ==
    \E n \in StepNodes, node \in StepNodes \cup {Null}, action \in Labels :
        next(n, node, action)

WireNextDefault ==
    \E n \in StepNodes, node \in StepNodes \cup {Null} : nextDefault(n, node)

WireLookup ==
    \E n \in StepNodes, action \in PostActions : CallGetNextNode(n, action)

\* A chained call, as in setNum->next(addNum)->next(capture, "added"):
\* next is called on the node the call before returned.
WireChained ==
    \E node \in StepNodes \cup {Null}, action \in Labels :
        /\ lastCall.op = "next"
        /\ ~lastCall.threw
        /\ next(lastCall.ret, node, action)

NextWire == WireNext \/ WireNextDefault \/ WireLookup \/ WireChained

SpecWire == InitWire /\ [][NextWire]_vars

\* The successful next() calls on n under label l, by position.
Connects(n, l) ==
    {i \in 1..Len(wiring) :
        wiring[i].node = n /\ wiring[i].label = l /\ wiring[i].target # Null}

Latest(S) == CHOOSE i \in S : \A j \in S : j <= i

\* The node the wiring history leaves under label l of n, Null when none.
Registered(n, l) ==
    IF Connects(n, l) = {} THEN Null ELSE wiring[Latest(Connects(n, l))].target

(***************************************************************************)
(* C5: a lookup with an absent action returns exactly the node registered  *)
(* under the empty-string label, the node an explicit empty-string action  *)
(* resolves to, and no node when nothing is registered under that label,   *)
(* whatever other labels hold.                                             *)
(***************************************************************************)
C5_AbsentIsDefaultLabel ==
    (lastCall.op = "getNextNode" /\ ~lastCall.action.has) =>
        /\ lastCall.ret = Registered(lastCall.node, "")
        /\ lastCall.ret = getNextNode(lastCall.node, Some(""))

C5_Witness ==
    /\ lastCall.op = "getNextNode"
    /\ ~lastCall.action.has
    /\ lastCall.ret = "B"
    /\ Has(successors[lastCall.node], "a")
    /\ successors[lastCall.node]["a"] = "A"

(***************************************************************************)
(* C6: after any sequence of connect calls a node's table maps each label  *)
(* to exactly the target of the most recent connect under that label, so   *)
(* a connect leaves every other label and node as they were; overwriting   *)
(* returns normally with the connected node.                               *)
(***************************************************************************)
C6_LastWriteWins ==
    /\ \A n \in AllNodes, l \in Labels :
          IF Registered(n, l) = Null
          THEN ~Has(successors[n], l)
          ELSE Has(successors[n], l) /\ successors[n][l] = Registered(n, l)
    /\ \A n \in AllNodes : DOMAIN successors[n] \subseteq Labels
    /\ (lastCall.op = "next" /\ wiring[Len(wiring)].target # Null) =>
          /\ ~lastCall.threw
          /\ lastCall.ret = wiring[Len(wiring)].target

C6_Witness ==
    /\ Len(wiring) = 3
    /\ wiring[1] = [node |-> "A", target |-> "A", label |-> "a"]
    /\ wiring[2] = [node |-> "A", target |-> "B", label |-> ""]
    /\ wiring[3] = [node |-> "A", target |-> "B", label |-> "a"]
    /\ lastCall.op = "next" /\ ~lastCall.threw
    /\ "overwrite" \in warnings
    /\ successors["A"]["a"] = "B"

\* A chained call a.next(b).next(c, L), a.next(b) being the last call made,
\* registers c under L in b's table, leaves a's table alone and returns c.
ChainedCallWiresTarget ==
    LET a == wiring[Len(wiring)].node
        b == wiring[Len(wiring)].target
        c == wiring'[Len(wiring')].target
        L == wiring'[Len(wiring')].label
    IN  (WireChained /\ c # Null) =>
            /\ successors'[b] = Put(successors[b], L, c)
            /\ a # b => successors'[a] = successors[a]
            /\ lastCall'.ret = c

(***************************************************************************)
(* C14: next(node, action) and next(node) return the connected node, not   *)
(* the node they were called on: in a.next(b).next(c, L) node c is         *)
(* registered under L in b's table, and a's table holds only b under the   *)
(* default label.                                                          *)
(***************************************************************************)
C14_ConnectReturnsTarget ==
    /\ [](lastCall.op = "next" /\ ~lastCall.threw =>
            lastCall.ret = wiring[Len(wiring)].target)
    /\ [][ChainedCallWiresTarget]_vars

\* The wiring of the linear test: A.next(B).next(A, "a").
C14_Witness ==
    /\ wiring = <<[node |-> "A", target |-> "B", label |-> ""],
                  [node |-> "B", target |-> "A", label |-> "a"]>>
    /\ lastCall.op = "next" /\ lastCall.node = "B" /\ lastCall.ret = "A"
    /\ successors["A"] = [l \in {""} |-> "B"]
    /\ successors["B"] = [l \in {"a"} |-> "A"]

(***************************************************************************)
(* SpecFlow: run() of a Flow over any wiring of the step nodes, any start  *)
(* node or none, and any standing Params of the flow.                      *)
(***************************************************************************)
\* The successor tables a sequence of next() calls with labels of L can
\* leave on a node.
Tables(L) ==
    UNION {[D -> StepNodes] : D \in SUBSET L}

\* The flows of `flows` given any standing Params and any start node or
\* none, the step nodes wired in any way under the labels of L; every node
\* constructed with the default (retries, waitMilliseconds) = (1, 0).
InitGraph(flows, L) ==
    /\ maxRetries = [n \in RetryNodes |-> 1]
    /\ waitMillis = [n \in RetryNodes |-> 0]
    /\ \E g \in [StepNodes -> Tables(L)] :
          successors = [n \in AllNodes |-> IF n \in StepNodes THEN g[n] ELSE EmptyMap]
    /\ \E q \in [flows -> ParamMaps] :
          params = [n \in AllNodes |-> IF n \in flows THEN q[n] ELSE EmptyMap]
    /\ \E st \in [flows -> StepNodes \cup {Null}] :
          startNode = [f \in FlowNodes |-> IF f \in flows THEN st[f] ELSE Null]
    /\ InitRun

InitFlow == InitGraph(Flows, Labels)

RunFlow == \E f \in Flows : Run(f)

NextFlow ==
    \/ RunFlow
    \/ FlowEnter
    \/ OrchestrateLoop
    \/ OrchestrateDispatch
    \/ FlowPost
    \/ NodePrep
    \/ NodeExec
    \/ NodeFallback
    \/ NodePost

SpecFlow == InitFlow /\ [][NextFlow]_vars

\* The positions of the history at which orchestrate invoked a node, and
\* those at which a node's post returned.
RunPositions  == {i \in 1..Len(trace) : trace[i].op = "run"}
PostPositions == {i \in 1..Len(trace) : trace[i].op = "post"}

\* The node registered in n's table under the label of action a, Null when
\* the table holds nothing under it.
SuccessorUnder(n, a) ==
    LET l == IF a.has THEN a.val ELSE ""
    IN  IF l \in DOMAIN successors[n] THEN successors[n][l] ELSE Null

\* The first invocation after position i, 0 when there is none.
NextRunAfter(i) ==
    IF \E j \in RunPositions : j > i
    THEN CHOOSE j \in RunPositions : j > i /\ \A k \in RunPositions : k > i => j <= k
    ELSE 0

(***************************************************************************)
(* C4: a Flow run starts with the start node; a node invoked after another *)
(* is the one registered in that node's table under the action it          *)
(* returned, and it is invoked only after that node's post returned; the   *)
(* run stops at the first node with nothing registered under its returned  *)
(* action, and returns that node's action.                                 *)
(***************************************************************************)
C4_TraversalFollowsActions ==
    \A f \in Flows :
        /\ \A i \in RunPositions :
              /\ (\A j \in RunPositions : i <= j) => trace[i].node = startNode[f]
              /\ NextRunAfter(i) # 0 =>
                    \E k \in PostPositions :
                        /\ i < k /\ k < NextRunAfter(i)
                        /\ trace[k].node = trace[i].node
                        /\ \A m \in PostPositions :
                              (i < m /\ m < NextRunAfter(i)) => m = k
                        /\ SuccessorUnder(trace[i].node, trace[k].a) # Null
                        /\ trace[NextRunAfter(i)].node =
                              SuccessorUnder(trace[i].node, trace[k].a)
        /\ (status = "done" /\ startNode[f] # Null) =>
              /\ RunPositions # {}
              /\ LET i == Latest(RunPositions)
                     k == Latest(PostPositions)
                 IN  /\ i < k
                     /\ trace[k].node = trace[i].node
                     /\ SuccessorUnder(trace[i].node, trace[k].a) = Null
                     /\ result = trace[k].a

\* The run of scenario 1: the start node returns a label wired to an end
\* node, which has no successors and returns no action.
C4_Witness ==
    /\ status = "done"
    /\ startNode["F"] = "A"
    /\ Cardinality(RunPositions) = 2
    /\ trace[Latest(RunPositions)].node = "B"
    /\ \E k \in PostPositions : trace[k].node = "A" /\ trace[k].a = Some("a")
    /\ successors["A"] = [l \in {"a"} |-> "B"]
    /\ successors["B"] = EmptyMap
    /\ result = Absent

(***************************************************************************)
(* C10: orchestrating a Flow with no start node returns absent as a normal *)
(* result: no hook of any node is called, no node's Params change and the  *)
(* Context stays as it was.                                                *)
(***************************************************************************)
C10_NoStartNode ==
    \A f \in Flows :
        startNode[f] = Null =>
            /\ \A i \in 1..Len(trace) : trace[i].op \in {"orchestrate", "flow_post"}
            /\ \A n \in AllNodes \ {f} : params[n] = EmptyMap
            /\ ctx = EmptyMap
            /\ status # "error"
            /\ (Running /\ Top.pc = "orchestrated") => Top.lastAction = Absent
            /\ status = "done" => result = Absent

C10_Witness ==
    /\ startNode["F"] = Null
    /\ status = "done"
    /\ result = Absent
    /\ "no_start" \in warnings
    /\ Len(trace) = 2

(***************************************************************************)
(* SpecBatch: one run() of a BatchNode constructed with any permitted      *)
(* (maxRetries, waitMillis).                                               *)
(***************************************************************************)
InitBatch ==
    /\ InitConstructed(BatchNodes)
    /\ InitRun

RunBatchNode == \E n \in BatchNodes : Run(n)

NextBatch ==
    \/ RunBatchNode
    \/ BatchNodePrep
    \/ BatchExecItem
    \/ BatchItemSleep
    \/ BatchItemFallback
    \/ BatchNodePost

SpecBatch == InitBatch /\ [][NextBatch]_vars

\* The positions of the history at which item i of n got its result.
Produced(n, i) ==
    {j \in 1..Len(trace) :
        /\ trace[j].node = n /\ trace[j].item = i
        /\ trace[j].op \in {"execItem", "itemFallback"}}

ItemPositions(n) == {j \in 1..Len(trace) : trace[j].node = n /\ trace[j].item > 0}

(***************************************************************************)
(* C7: whenever BatchNode internalExec returns, for an input of any length *)
(* n >= 0, the output has length n and output[i] is the result that a      *)
(* successful executeItem or executeItemFallback produced for input[i];    *)
(* the items are processed in input order.                                 *)
(***************************************************************************)
C7_OutputMatchesInput ==
    \A n \in BatchNodes :
        /\ (Running /\ Top.node = n /\ Top.pc = "post") =>
              /\ Len(Top.results) = Len(Top.batchPrepResult)
              /\ \A i \in 1..Len(Top.batchPrepResult) :
                    /\ Cardinality(Produced(n, i)) = 1
                    /\ \A j \in Produced(n, i) :
                          /\ Top.results[i] = trace[j].v
                          /\ trace[j].v \div 10 = Top.batchPrepResult[i]
              /\ \A j, k \in ItemPositions(n) :
                    j < k => trace[j].item <= trace[k].item
        /\ (status = "done" /\ Count("prep", n) = 1) =>
              \A j \in Positions("prep", n) : ctx["e_size"] = AnyInt(trace[j].v)

C7_Witness ==
    /\ Running
    /\ Top.node = "BN"
    /\ Top.pc = "post"
    /\ Top.batchPrepResult = <<1, 2, 2>>
    /\ Top.results = <<19, 21, 29>>

(***************************************************************************)
(* C8: when all maxRetries attempts on an item fail and its fallback fails *)
(* too, the batch ends in an error: no output is returned, no later item   *)
(* is attempted or given its fallback, and post is not called.             *)
(***************************************************************************)
C8_BatchAborts ==
    \A n \in BatchNodes :
        \A j \in Positions("itemFallback_throw", n) :
            /\ status = "error"
            /\ stack = <<>>
            /\ result = Absent
            /\ j = Len(trace)
            /\ \A k \in ItemPositions(n) : trace[k].item <= trace[j].item
            /\ Count("post", n) = 0
            /\ Cardinality({k \in Positions("execItem_throw", n) :
                               trace[k].item = trace[j].item}) = maxRetries[n]

C8_Witness ==
    /\ status = "error"
    /\ \E j \in Positions("itemFallback_throw", "BN") : trace[j].item = 2
    /\ \E j \in Positions("prep", "BN") : trace[j].v = 3
    /\ Count("execItem", "BN") = 1
    /\ maxRetries["BN"] = 2

(***************************************************************************)
(* SpecBatchFlow: run() of a BatchFlow over any wiring of the step nodes,  *)
(* any start node or none, any standing Params and any parameter sets.     *)
(***************************************************************************)
InitBatchFlow == InitGraph(BatchFlows, {""})

RunBatchFlow == \E f \in BatchFlows : Run(f)

NextBatchFlow ==
    \/ RunBatchFlow
    \/ BatchFlowPrep
    \/ BatchFlowNext
    \/ BatchFlowAdvance
    \/ BatchFlowPost
    \/ OrchestrateLoop
    \/ OrchestrateDispatch
    \/ NodePrep
    \/ NodeExec
    \/ NodeFallback
    \/ NodePost

SpecBatchFlow == InitBatchFlow /\ [][NextBatchFlow]_vars

\* Params base overridden by over: over's value where both hold a key.
Override(base, over) ==
    [k \in DOMAIN base \cup DOMAIN over |->
        IF k \in DOMAIN over THEN over[k] ELSE base[k]]

(***************************************************************************)
(* C3: the Params pushed into every node executed by orchestrate(context,  *)
(* initialParams) are flow.params overridden by initialParams: for a key   *)
(* in both maps the node sees the initialParams value; in a BatchFlow      *)
(* sub-run the parameter set's value wins over the standing Params.        *)
(***************************************************************************)
C3_InitialParamsWin ==
    \A i \in 2..Len(stack) :
        KindOf(stack[i - 1].node) \in {"Flow", "BatchFlow"} =>
            params[stack[i].node] =
                Override(params[stack[i - 1].node], stack[i - 1].initialParams)

\* The same with the flow's standing Params winning, as std::map::insert
\* leaves them.
C3_StandingParamsWin ==
    \A i \in 2..Len(stack) :
        KindOf(stack[i - 1].node) \in {"Flow", "BatchFlow"} =>
            params[stack[i].node] =
                Override(stack[i - 1].initialParams, params[stack[i - 1].node])

OrchestratePositions(f) == Positions("orchestrate", f)

\* The value the step node invoked at position j read from the Context is
\* the one the node before it stored, 0 when it is the first.
ReadsWhatWasLeft(j) ==
    LET before == {k \in 1..(j - 1) : trace[k].op = "exec"}
    IN  trace[j].v = IF before = {} THEN 0 ELSE trace[Latest(before)].v

(***************************************************************************)
(* C9: a BatchFlow run calls prepBatch once, then makes one full           *)
(* orchestrate traversal per parameter set, in sequence order and on the   *)
(* same Context; after the last it calls postBatch exactly once with the   *)
(* whole sequence and returns postBatch's action, whatever the sub-runs    *)
(* returned.  With no parameter set no node runs and postBatch is still    *)
(* called once.                                                            *)
(***************************************************************************)
C9_BatchFlowRun ==
    \A f \in BatchFlows :
        /\ Count("prepBatch", f) <= 1
        /\ Len(trace) > 0 => trace[1].op = "prepBatch"
        /\ \A j \in OrchestratePositions(f) :
              \* the sub-runs take the parameter sets in order, one each,
              \* each after the one before has returned
              /\ trace[j].item = Cardinality({k \in OrchestratePositions(f) : k <= j})
              /\ trace[j].item <= trace[1].v
              /\ Cardinality({k \in Positions("orchestrated", f) : k < j})
                    = trace[j].item - 1
        /\ (Running /\ stack[1].pc \in {"loop", "called"}) =>
              /\ stack[1].initialParams =
                    stack[1].batchParamsList[Count("orchestrate", f)]
              /\ Len(stack[1].batchParamsList) = trace[1].v
        /\ \A j \in 1..Len(trace) :
              /\ trace[j].op = "run" => OrchestratePositions(f) # {}
              /\ (trace[j].op = "prep" /\ trace[j].node \in StepNodes) =>
                    ReadsWhatWasLeft(j)
        /\ \A j \in Positions("postBatch", f) :
              /\ Count("postBatch", f) = 1
              /\ j = Len(trace)
              /\ trace[j].v = trace[1].v
              /\ Count("orchestrate", f) = trace[1].v
              /\ Count("orchestrated", f) = trace[1].v
              /\ status = "done"
              /\ result = trace[j].a
              /\ ctx["batches"] = AnyInt(trace[1].v)
        /\ status = "done" => Count("postBatch", f) = 1

\* Two sub-runs that ended with other actions than postBatch returned.
C9_Witness ==
    /\ status = "done"
    /\ trace[1].v = 2
    /\ Count("orchestrated", "BF") = 2
    /\ Cardinality(RunPositions) = 3
    /\ \A j \in Positions("orchestrated", "BF") : trace[j].a = Some("a")
    /\ result = Absent

(***************************************************************************)
(* SpecNest: run() of a Flow whose start node is itself a Flow or a        *)
(* BatchFlow over the step nodes, with step nodes wired behind it.         *)
(***************************************************************************)
\* The successor tables of the step nodes in a nest: A leads to B under
\* the default label or nowhere, B leads nowhere.
ChainTables ==
    {g \in [StepNodes -> Tables({""})] :
        /\ g["A"] \in {EmptyMap, [l \in {""} |-> "B"]}
        /\ g["B"] = EmptyMap}

\* Flow F started on inner (a Flow or a BatchFlow); inner started on A or
\* on nothing and wired to step nodes under any labels.
InitNestOf(inner) ==
    /\ maxRetries = [n \in RetryNodes |-> 1]
    /\ waitMillis = [n \in RetryNodes |-> 0]
    /\ \E g \in ChainTables, t \in Tables(Labels) :
          successors = [n \in AllNodes |->
                           IF n \in StepNodes THEN g[n]
                           ELSE IF n = inner THEN t ELSE EmptyMap]
    /\ params = [n \in AllNodes |-> EmptyMap]
    /\ \E st \in {"A", Null} :
          startNode = [f \in FlowNodes |->
                          IF f \in Flows THEN inner
                          ELSE IF f = inner THEN st ELSE Null]
    /\ InitRun

InitNest == \E inner \in InnerFlows \cup BatchFlows : InitNestOf(inner)

NextNest ==
    \/ RunFlow
    \/ FlowEnter
    \/ OrchestrateLoop
    \/ OrchestrateDispatch
    \/ FlowPost
    \/ BatchFlowPrep
    \/ BatchFlowNext
    \/ BatchFlowAdvance
    \/ BatchFlowPost
    \/ NodePrep
    \/ NodeExec
    \/ NodeFallback
    \/ NodePost

SpecNest == InitNest /\ [][NextNest]_vars

\* The Context the hooks that returned have written, in the order of the
\* history up to position k: a step node's post stores its exec result,
\* postBatch stores the number of parameter sets.
RECURSIVE Written(_)
Written(k) ==
    IF k = 0 THEN EmptyMap
    ELSE IF trace[k].op = "post" /\ trace[k].node \in StepNodes
         THEN Put(Written(k - 1), "cur", AnyInt(trace[k - 1].v))
    ELSE IF trace[k].op = "postBatch"
         THEN Put(Written(k - 1), "batches", AnyInt(trace[k].v))
    ELSE Written(k - 1)

\* The positions at which an error left a node: its fallback failed.
Escalations == {j \in 1..Len(trace) : trace[j].op = "fallback_throw"}

(***************************************************************************)
(* C12: when a node's fallback fails during a Flow run, the run ends in    *)
(* error there: no node is executed after it, the run returns no action,   *)
(* a BatchFlow starts no further sub-run and does not call postBatch; the  *)
(* Context holds what the hooks that returned before had written.          *)
(***************************************************************************)
C12_RunAbortsOnEscalation ==
    /\ \A j \in Escalations :
          /\ j = Len(trace)
          /\ status = "error"
          /\ stack = <<>>
          /\ result = Absent
          /\ \A f \in Flows : Count("flow_post", f) = 0
          /\ \A f \in BatchFlows :
                \* a BatchFlow the error went through started no sub-run
                \* after the failing one
                (Count("prepBatch", f) = 1 /\ Count("postBatch", f) = 0) =>
                    Count("orchestrate", f) = Count("orchestrated", f) + 1
    /\ status = "error" => Escalations # {}
    /\ ctx = Written(Len(trace))

\* The first of two sub-runs of the nested BatchFlow fails at B after A
\* completed: the second sub-run is not started.
C12_Witness ==
    /\ status = "error"
    /\ startNode["F"] = "BF"
    /\ \E j \in Positions("prepBatch", "BF") : trace[j].v = 2
    /\ Count("orchestrate", "BF") = 1
    /\ Count("post", "A") = 1
    /\ Count("fallback_throw", "B") = 1
    /\ ctx = [k \in {"cur"} |-> AnyInt(1)]

(***************************************************************************)
(* SpecStandalone: run() called directly on a node that has been wired to  *)
(* successors in any way.                                                  *)
(***************************************************************************)
InitStandalone ==
    /\ \E r \in [ProbeNodes -> 1..MaxRetries] :
          maxRetries = [n \in RetryNodes |-> IF n \in ProbeNodes THEN r[n] ELSE 1]
    /\ \E w \in [ProbeNodes -> 0..MaxWait] :
          waitMillis = [n \in RetryNodes |-> IF n \in ProbeNodes THEN w[n] ELSE 0]
    /\ \E t \in Tables(Labels) :
          successors = [n \in AllNodes |-> IF n \in ProbeNodes THEN t ELSE EmptyMap]
    /\ params = [n \in AllNodes |-> EmptyMap]
    /\ startNode = [f \in FlowNodes |-> Null]
    /\ InitRun

NextStandalone ==
    \/ RunProbe
    \/ NodePrep
    \/ NodeExec
    \/ NodeSleep
    \/ NodeFallback
    \/ NodePost

SpecStandalone == InitStandalone /\ [][NextStandalone]_vars

(***************************************************************************)
(* C13: run() on a node that is not a Flow executes that node's lifecycle  *)
(* once and returns its post's action; no successor is looked up or        *)
(* executed whatever the action, and the node's successors change neither  *)
(* the action returned nor what is written to the Context: they only       *)
(* cause a warning.                                                        *)
(***************************************************************************)
C13_StandaloneRun ==
    \A n \in ProbeNodes :
        /\ \A i \in 1..Len(trace) : trace[i].node = n /\ trace[i].op # "run"
        /\ Len(stack) <= 1
        /\ lastCall = NoCall
        /\ \A m \in AllNodes : params[m] = EmptyMap
        /\ \A m \in RetryNodes \ {n} : currentRetry[m] = 0
        /\ warnings = IF status # "idle" /\ DOMAIN successors[n] # {}
                      THEN {"run_with_successors"} ELSE {}
        /\ Count("prep", n) + Count("prep_throw", n) <= 1
        /\ PostCalls(n) <= 1
        /\ status = "done" =>
              /\ Count("prep", n) = 1
              /\ Count("post", n) = 1
              /\ Cardinality(ResultPositions(n)) = 1
              /\ result = trace[Len(trace)].a
              /\ ctx = [k \in {"p", "e"} |->
                           IF k = "p" THEN AnyInt(trace[1].v)
                           ELSE AnyInt(trace[Len(trace) - 1].v)]
        /\ status = "error" =>
              trace # <<>> /\
              trace[Len(trace)].op \in {"prep_throw", "fallback_throw", "post_throw"}
        /\ status # "done" => ctx = EmptyMap

\* The node returns the label its successor A is registered under, and
\* the run ends there.
C13_Witness ==
    /\ status = "done"
    /\ successors["N"] = [l \in {"a"} |-> "A"]
    /\ result = Some("a")
    /\ Len(trace) = 3
    /\ "run_with_successors" \in warnings

(***************************************************************************)
(* SpecMain: the linear and the branching test of main.cpp, run with any   *)
(* "multiplier" in the flow's Params or none, from either of the first     *)
(* two nodes.                                                              *)
(***************************************************************************)
\* setNum->next(addNum)->next(capture, "added")
LinearWiring ==
    [n \in AllNodes |->
        IF n = "setNum" THEN [l \in {""} |-> "addNum"]
        ELSE IF n = "addNum" THEN [l \in {"added"} |-> "captureDefault"]
        ELSE EmptyMap]

\* setNumBranch->next(addNumBranch);
\* setNumBranch->next(captureOver20, "over_20");
\* addNumBranch->next(captureDefault, "added")
BranchingWiring ==
    [n \in AllNodes |->
        IF n = "setNum"
        THEN [l \in {"", "over_20"} |-> IF l = "" THEN "addNum" ELSE "captureOver20"]
        ELSE IF n = "addNum" THEN [l \in {"added"} |-> "captureDefault"]
        ELSE EmptyMap]

\* branchingFlow.setParams({{"multiplier", 3}}), with other values, a value
\* that is no int, or no setParams at all.
MultiplierParams ==
    {EmptyMap}
    \cup {[k \in {"multiplier"} |-> AnyInt(v)] : v \in 1..MaxMultiplier}
    \cup {[k \in {"multiplier"} |-> AnyStr("x")]}

InitMain ==
    /\ maxRetries = [n \in RetryNodes |-> 1]
    /\ waitMillis = [n \in RetryNodes |-> 0]
    /\ successors \in {LinearWiring, BranchingWiring}
    /\ \E q \in MultiplierParams :
          params = [n \in AllNodes |-> IF n \in Flows THEN q ELSE EmptyMap]
    /\ \E st \in SetNumberNodes \cup AddNumberNodes :
          startNode = [f \in FlowNodes |-> IF f \in Flows THEN st ELSE Null]
    /\ InitRun

NextMain ==
    \/ RunFlow
    \/ FlowEnter
    \/ OrchestrateLoop
    \/ OrchestrateDispatch
    \/ FlowPost
    \/ NodePrep
    \/ NodeExec
    \/ NodePost

SpecMain == InitMain /\ [][NextMain]_vars

\* The nodes orchestrate invoked, in order.
RECURSIVE RunsUpTo(_)
RunsUpTo(k) ==
    IF k = 0 THEN <<>>
    ELSE IF trace[k].op = "run" THEN Append(RunsUpTo(k - 1), trace[k].node)
    ELSE RunsUpTo(k - 1)
Runs == RunsUpTo(Len(trace))

\* The action the post of the invocation made at position i returned, when
\* it has returned before the next invocation.
PostOf(i) ==
    {k \in PostPositions :
        /\ k > i /\ trace[k].node = trace[i].node
        /\ \A j \in RunPositions : j > i => k < j}

Executed(n) == \E i \in 1..Len(trace) : trace[i].node = n

(***************************************************************************)
(* C15: in a Flow run a node is executed only if it is the start node or   *)
(* the successor registered under the action the node executed right       *)
(* before it returned; a node that is not executed keeps its state.  With  *)
(* multiplier = 3 node A (base 10) produces 30 and "over_20", the run goes *)
(* straight to the "over_20" capture node, which captures 30; node B and   *)
(* the capture node behind "added" are not executed, that capture node     *)
(* keeps -999, and the Context ends with currentValue = 30.                *)
(***************************************************************************)
C15_OnlyProducedActionsAreFollowed ==
    /\ \A i \in RunPositions :
          IF \A j \in RunPositions : i <= j
          THEN trace[i].node = startNode["F"]
          ELSE LET h == Latest({j \in RunPositions : j < i})
               IN  /\ Cardinality(PostOf(h)) = 1
                   /\ \A k \in PostOf(h) :
                         trace[i].node = SuccessorUnder(trace[h].node, trace[k].a)
    /\ \A n \in MainNodes :
          ~Executed(n) =>
              /\ params[n] = EmptyMap
              /\ currentRetry[n] = 0
              /\ n \in CaptureNodes => capturedValue[n] = NotCaptured
    /\ ( /\ successors = BranchingWiring
         /\ params["F"] = [k \in {"multiplier"} |-> AnyInt(3)]
         /\ startNode["F"] = "setNum"
         /\ status = "done" ) =>
              /\ Runs = <<"setNum", "captureOver20">>
              /\ \A k \in Positions("exec", "setNum") : trace[k].v = 30
              /\ \A k \in Positions("post", "setNum") : trace[k].a = Some("over_20")
              /\ capturedValue["captureOver20"] = 30
              /\ capturedValue["captureDefault"] = NotCaptured
              /\ ~Executed("addNum") /\ ~Executed("captureDefault")
              /\ ctx["currentValue"] = AnyInt(30)

C15_Witness ==
    /\ status = "done"
    /\ successors = BranchingWiring
    /\ params["F"] = [k \in {"multiplier"} |-> AnyInt(3)]
    /\ Runs = <<"setNum", "captureOver20">>
    /\ capturedValue = [n \in CaptureNodes |->
                           IF n = "captureOver20" THEN 30 ELSE NotCaptured]

\* The Context the posts of main's nodes that returned have left, up to
\* position k of the history: each stored its exec result.
RECURSIVE Left(_)
Left(k) ==
    IF k = 0 THEN EmptyMap
    ELSE IF trace[k].op = "post"
            /\ trace[k].node \in SetNumberNodes \cup AddNumberNodes
         THEN Put(Left(k - 1), "currentValue", AnyInt(trace[k - 1].v))
    ELSE Left(k - 1)

(***************************************************************************)
(* C16: the Context is shared along the traversal: what a node's prep      *)
(* reads is what the post of the node executed right before it left.       *)
(* Node A (base 10, multiplier 1) writes currentValue = 10 and returns no  *)
(* action, the default label leads to node B, which reads 10, writes 15    *)
(* and returns "added"; the node wired under "added" captures 15, and the  *)
(* Context ends with currentValue = 15.                                    *)
(***************************************************************************)
C16_ContextIsShared ==
    /\ ctx = Left(Len(trace))
    /\ \A j \in 1..Len(trace) :
          /\ (trace[j].op = "prep" /\ trace[j].node \in AddNumberNodes) =>
                Left(j - 1) = [k \in {"currentValue"} |-> AnyInt(trace[j].v)]
          /\ (trace[j].op = "prep" /\ trace[j].node \in CaptureNodes) =>
                \/ Left(j - 1) = [k \in {"currentValue"} |-> AnyInt(trace[j].v)]
                \/ Left(j - 1) = EmptyMap /\ trace[j].v = NotCaptured
          /\ trace[j].op = "prep_throw" => Left(j - 1) = EmptyMap
    /\ ( /\ successors = LinearWiring
         /\ getParamOrDefault("F", "multiplier", 1) = 1
         /\ startNode["F"] = "setNum"
         /\ status = "done" ) =>
              /\ Runs = <<"setNum", "addNum", "captureDefault">>
              /\ \A k \in Positions("post", "setNum") :
                    trace[k].a = Absent /\ Left(k) = [c \in {"currentValue"} |-> AnyInt(10)]
              /\ \A k \in Positions("prep", "addNum") : trace[k].v = 10
              /\ \A k \in Positions("post", "addNum") :
                    trace[k].a = Some("added") /\ Left(k) = [c \in {"currentValue"} |-> AnyInt(15)]
              /\ capturedValue["captureDefault"] = 15
              /\ params["captureDefault"]["capturedValue"] = AnyInt(15)
              /\ ctx = [c \in {"currentValue"} |-> AnyInt(15)]

C16_Witness ==
    /\ status = "done"
    /\ successors = LinearWiring
    /\ params["F"] = [k \in {"multiplier"} |-> AnyInt(1)]
    /\ Runs = <<"setNum", "addNum", "captureDefault">>
    /\ capturedValue["captureDefault"] = 15
    /\ ctx = [c \in {"currentValue"} |-> AnyInt(15)]

\* The events at which a node or flow handed its action back to the
\* orchestrate that invoked it.
ReturnOps == {"post", "flow_post", "postBatch"}

(***************************************************************************)
(* C17: a Flow is a node: its internalRun calls orchestrate with empty     *)
(* initial params and returns what post, the identity by default, makes    *)
(* of the resulting action, so run() on a Flow returns the last action of  *)
(* its traversal; a Flow wired as a node of an outer Flow runs its         *)
(* traversal to its end, and the outer Flow then dispatches on the inner   *)
(* Flow's successor table with the inner traversal's final action.         *)
(***************************************************************************)
C17_FlowIsANode ==
    /\ \A i \in 1..Len(stack) :
          (KindOf(stack[i].node) = "Flow" /\ stack[i].pc # "prep") =>
              stack[i].initialParams = EmptyMap
    /\ \A i \in 1..Len(trace) :
          trace[i].op = "flow_post" =>
              \* the action of the last node of the flow's traversal, or
              \* none when the flow has no start node
              /\ i > 1
              /\ IF startNode[trace[i].node] = Null
                 THEN trace[i - 1] = Event("orchestrate", trace[i].node, 0)
                      /\ trace[i].a = Absent
                 ELSE trace[i - 1].op \in ReturnOps
                      /\ trace[i].a = trace[i - 1].a
                      /\ SuccessorUnder(trace[i - 1].node, trace[i].a) = Null
    /\ \A i \in 1..Len(trace) :
          (trace[i].op = "flow_post" /\ trace[i].node \in InnerFlows) =>
              LET inner == trace[i].node
                  begun == Positions("run", inner)
              IN  /\ Cardinality(begun) = 1
                  /\ \A b \in begun :
                        /\ b < i
                        /\ trace[b + 1] = Event("orchestrate", inner, 0)
                        /\ \A j \in (b + 1)..(i - 1) : trace[j].node \notin Flows
                  /\ i < Len(trace) =>
                        IF SuccessorUnder(inner, trace[i].a) = Null
                        THEN trace[i + 1] = ActionEvent("flow_post", "F", trace[i].a)
                        ELSE trace[i + 1] =
                                Event("run", SuccessorUnder(inner, trace[i].a), 0)
                  /\ status = "done" => i < Len(trace)
    /\ status = "done" =>
          /\ trace[Len(trace)].op = "flow_post" /\ trace[Len(trace)].node = "F"
          /\ result = trace[Len(trace) - 1].a

\* The inner flow's traversal ends at A with "a"; the outer flow follows
\* the inner flow's "a" entry to B, not its default entry.
C17_Witness ==
    /\ status = "done"
    /\ Runs = <<"G", "A", "B">>
    /\ successors["G"] = [l \in {"", "a"} |-> IF l = "a" THEN "B" ELSE "A"]
    /\ \E i \in Positions("flow_post", "G") : trace[i].a = Some("a")
    /\ result = Some("")

(***************************************************************************)
(* SpecEngine: one call made on a freshly wired object: run() of a Flow    *)
(* nesting a Flow or a BatchFlow, run() of a BatchNode, or a direct call   *)
(* of one of the entry points the engine itself never uses.                *)
(***************************************************************************)
\* A direct call of an entry point by the user; an exception it throws
\* leaves the call.
CallEntryPoint(n, op, outcomes) ==
    /\ status = "idle"
    /\ \E o \in outcomes :
          /\ lastCall' = [op |-> op, node |-> n, action |-> Absent, ret |-> Null,
                          threw |-> ~o.ok]
          /\ status' = IF o.ok THEN "done" ELSE "error"
          /\ error' = IF o.ok THEN error ELSE op
    /\ UNCHANGED <<cfgVars, wiring, currentRetry, ctx, stack, result, trace,
                   warnings>>

CallFlowExec ==
    \E f \in FlowNodes : CallEntryPoint(f, "Flow::exec", FlowExecOutcomes(f))

CallBatchExec ==
    \E n \in BatchNodes : CallEntryPoint(n, "BatchNode::exec", BatchExecOutcomes(n))

CallBatchExecFallback ==
    \E n \in BatchNodes :
        CallEntryPoint(n, "BatchNode::execFallback", BatchExecFallbackOutcomes(n))

CallBatchFlowPost ==
    \E f \in BatchFlows :
        CallEntryPoint(f, "BatchFlow::post", BatchFlowPostOutcomes(f))

InitEngine == InitNest \/ InitBatch

\* The object under test is run: the Flow where one has been built, the
\* BatchNode otherwise.
RunBuiltFlow == (\E f \in Flows : startNode[f] # Null) /\ RunFlow

RunLoneBatchNode == (\A f \in Flows : startNode[f] = Null) /\ RunBatchNode

NextEngine ==
    \/ RunBuiltFlow
    \/ FlowEnter
    \/ OrchestrateLoop
    \/ OrchestrateDispatch
    \/ FlowPost
    \/ BatchFlowPrep
    \/ BatchFlowNext
    \/ BatchFlowAdvance
    \/ BatchFlowPost
    \/ NodePrep
    \/ NodeExec
    \/ NodeFallback
    \/ NodePost
    \/ RunLoneBatchNode
    \/ BatchNodePrep
    \/ BatchExecItem
    \/ BatchItemSleep
    \/ BatchItemFallback
    \/ BatchNodePost
    \/ CallFlowExec
    \/ CallBatchExec
    \/ CallBatchExecFallback
    \/ CallBatchFlowPost

SpecEngine == InitEngine /\ [][NextEngine]_vars

EntryPoints ==
    {"Flow::exec", "BatchNode::exec", "BatchNode::execFallback", "BatchFlow::post"}

\* The history holds a call of exec or execFallback on a flow or a batch
\* node, or a call of post on a BatchFlow.
EntryPointReached(i) ==
    \/ /\ trace[i].node \in FlowNodes \cup BatchNodes
       /\ trace[i].op \in AttemptOps \cup FallbackOps
    \/ /\ trace[i].node \in BatchFlows
       /\ trace[i].op \in PostOps \cup {"flow_post"}

LifecycleOps ==
    {"prep", "prep_throw", "exec", "exec_throw", "sleep", "fallback",
     "fallback_throw", "post", "post_throw", "execItem", "execItem_throw",
     "itemFallback", "itemFallback_throw"}

\* An event of the lifecycle of a node that is not a flow.
IsLifecycleEvent(e) == e.op \in LifecycleOps /\ e.node \notin FlowNodes

LifecyclePositions == {k \in 1..Len(trace) : IsLifecycleEvent(trace[k])}

(***************************************************************************)
(* C19: execution is sequential.  At most one node lifecycle is in         *)
(* progress, every flow below it waiting for the call it made; a node's    *)
(* prep starts only after the post of the node run before it returned; a   *)
(* BatchNode first attempts item i+1 only after item i succeeded or its    *)
(* fallback returned; a BatchFlow starts sub-run j+1 only after the        *)
(* traversal of sub-run j ended.                                           *)
(***************************************************************************)
C19_StrictlySequential ==
    /\ \A i \in 1..(Len(stack) - 1) :
          /\ KindOf(stack[i].node) \in {"Flow", "BatchFlow"}
          /\ stack[i].pc = "called"
          /\ stack[i].currentNode = stack[i + 1].node
    /\ LET lifecycle == SelectSeq(trace, IsLifecycleEvent)
       IN  \A k \in 1..Len(lifecycle) :
              IF lifecycle[k].op \in {"prep", "prep_throw"}
              THEN \* the lifecycle before has ended with its post
                   k > 1 => lifecycle[k - 1].op = "post"
              ELSE \* a later phase of the lifecycle in progress
                   /\ k > 1
                   /\ lifecycle[k - 1].node = lifecycle[k].node
                   /\ lifecycle[k - 1].op \notin PostOps
    /\ \A k \in 1..Len(trace) :
          (trace[k].node \in BatchNodes /\ trace[k].item > 0) =>
              /\ trace[k - 1].node = trace[k].node
              /\ IF trace[k - 1].item = trace[k].item
                 THEN trace[k - 1].op \in {"execItem_throw", "sleep"}
                 ELSE /\ trace[k - 1].item = trace[k].item - 1
                      /\ trace[k].item > 1 =>
                            trace[k - 1].op \in {"execItem", "itemFallback"}
                      /\ trace[k].op \in {"execItem", "execItem_throw"}
    /\ \A k \in 1..Len(trace) :
          (trace[k].node \in BatchFlows /\ trace[k].op = "orchestrate") =>
              IF trace[k].item = 1
              THEN trace[k - 1].op = "prepBatch"
              ELSE /\ trace[k - 1].op = "orchestrated"
                   /\ trace[k - 1].node = trace[k].node
                   /\ Cardinality({j \in 1..k : trace[j].op = "orchestrated"})
                         = trace[k].item - 1
    /\ \A k \in 1..Len(trace) :
          (trace[k].op = "run" /\ k > 1) =>
              trace[k - 1].op \in ReturnOps \cup {"orchestrate"}

\* The node of the second sub-run of a nested BatchFlow is about to
\* execute, after the first sub-run ran A to its post.
C19_Witness ==
    /\ Running
    /\ Len(stack) = 3
    /\ stack[2].node = "BF" /\ stack[2].batchIndex = 2
    /\ Top.node = "A" /\ Top.pc = "exec"
    /\ Count("post", "A") = 1

(***************************************************************************)
(* SpecFlowFair: SpecFlow with every hook returning or failing and every   *)
(* step of the engine taken: run() is one thread that nothing suspends.    *)
(***************************************************************************)
SpecFlowFair == InitFlow /\ [][NextFlow]_vars /\ WF_vars(NextFlow)

\* The nodes registered in n's successor table.
Targets(n) == {successors[n][l] : l \in DOMAIN successors[n]}

\* The nodes within k successor edges of the nodes of S.
RECURSIVE ReachIn(_, _)
ReachIn(S, k) ==
    IF k = 0 THEN S ELSE ReachIn(S \cup UNION {Targets(m) : m \in S}, k - 1)

\* The nodes reachable from n along one successor edge or more.
ReachableFrom(n) == ReachIn(Targets(n), Cardinality(AllNodes))

\* The graph of flow f: its start node and what is reachable from it.
GraphNodes(f) ==
    IF startNode[f] = Null THEN {}
    ELSE {startNode[f]} \cup ReachableFrom(startNode[f])

\* No node of f's graph is reachable from itself.
Acyclic(f) == \A n \in GraphNodes(f) : n \notin ReachableFrom(n)

Ended == status \in {"done", "error"}

\* The run ended because the node run last has no successor under the
\* action it returned (or, the flow having no start node, without running
\* a node).
NaturalEnd(f) ==
    /\ status = "done"
    /\ IF startNode[f] = Null
       THEN Invocations = 0
       ELSE /\ RunPositions # {} /\ PostPositions # {}
            /\ Latest(RunPositions) < Latest(PostPositions)
            /\ trace[Latest(PostPositions)].node = trace[Latest(RunPositions)].node
            /\ SuccessorUnder(trace[Latest(PostPositions)].node,
                              trace[Latest(PostPositions)].a) = Null

\* The run ended with the error of a node whose fallback failed.
UnrecoveredFailure ==
    /\ status = "error"
    /\ trace[Len(trace)].op = "fallback_throw"

(***************************************************************************)
(* C20: run() on a Flow whose graph has no node reachable from itself,     *)
(* every hook returning or failing, eventually ends, either at a node      *)
(* with no successor under the action it returned or with an unrecovered   *)
(* failure; it invokes at most as many nodes as the graph has.             *)
(***************************************************************************)
C20_AcyclicRunEnds ==
    /\ [](Acyclic("F") => Invocations <= Cardinality(GraphNodes("F")))
    /\ []((Acyclic("F") /\ Ended) => (NaturalEnd("F") \/ UnrecoveredFailure))
    /\ [](~(NaturalEnd("F") /\ UnrecoveredFailure))
    /\ (Acyclic("F") /\ status = "running") ~> Ended

\* A two-node graph run to its natural end, both nodes invoked.
C20_Witness ==
    /\ Acyclic("F")
    /\ NaturalEnd("F")
    /\ Cardinality(GraphNodes("F")) = 2
    /\ Invocations = 2

(***************************************************************************)
(* SpecCycle: run() of a Flow over the loop nodes, wired in any way, from  *)
(* any start node or none; every hook returns.  SpecCycleFair adds that    *)
(* every step of the engine is taken.                                      *)
(***************************************************************************)
LoopTables(L) == UNION {[D -> LoopNodes] : D \in SUBSET L}

InitCycle ==
    /\ maxRetries = [n \in RetryNodes |-> 1]
    /\ waitMillis = [n \in RetryNodes |-> 0]
    /\ \E g \in [LoopNodes -> LoopTables(Labels)] :
          successors = [n \in AllNodes |-> IF n \in LoopNodes THEN g[n] ELSE EmptyMap]
    /\ params = [n \in AllNodes |-> EmptyMap]
    /\ \E st \in LoopNodes \cup {Null} :
          startNode = [f \in FlowNodes |-> IF f \in Flows THEN st ELSE Null]
    /\ InitRun

NextCycle ==
    \/ RunFlow
    \/ FlowEnter
    \/ OrchestrateLoop
    \/ OrchestrateDispatch
    \/ FlowPost
    \/ NodePrep
    \/ NodeExec
    \/ NodePost

SpecCycle == InitCycle /\ [][NextCycle]_vars

SpecCycleFair == SpecCycle /\ WF_vars(NextCycle)

\* The node the traversal goes to after loop node n, Null when n's table
\* holds nothing under the action n produces.
Followed(n) == IF n = Null THEN Null ELSE SuccessorUnder(n, LoopAction(n))

\* The node the traversal is at after k nodes have run, starting at n.
RECURSIVE FollowedFrom(_, _)
FollowedFrom(n, k) == IF k = 0 THEN n ELSE FollowedFrom(Followed(n), k - 1)

\* The actions produced lead around a cycle: the traversal of f never comes
\* to a node with nothing registered under its action.
ProducedCycle(f) == FollowedFrom(startNode[f], Cardinality(LoopNodes)) # Null

\* The nodes of that cycle.
CycleNodes(f) ==
    LET entry == FollowedFrom(startNode[f], Cardinality(LoopNodes))
    IN  {FollowedFrom(entry, k) : k \in 0..Cardinality(LoopNodes)} \ {Null}

\* exec of loop node n is about to be called.
Executing(n) == Running /\ Top.node = n /\ Top.pc = "exec"

(***************************************************************************)
(* C21: orchestrate detects no cycle.  When the actions the nodes produce  *)
(* lead around a cycle of successor edges and every node completes, run()  *)
(* never returns and every node of that cycle is executed again and        *)
(* again; when they lead to a node with nothing registered under its       *)
(* action the run ends normally, whatever cycles the graph holds.          *)
(***************************************************************************)
C21_ProducedCycleNeverEnds ==
    /\ [](ProducedCycle("F") => ~Ended)
    /\ \A n \in LoopNodes :
          []((status = "running" /\ ProducedCycle("F") /\ n \in CycleNodes("F"))
                => []<>Executing(n))
    /\ (status = "running" /\ ~ProducedCycle("F")) ~> (status = "done")
    /\ [](status # "error")

\* P is about to be executed again after the traversal went from P to Q
\* and back.
C21_Witness ==
    /\ startNode["F"] = "P"
    /\ Followed("P") = "Q" /\ Followed("Q") = "P"
    /\ Executing("P")
    /\ Has(ctx, "last") /\ ctx["last"] = AnyStr("Q")

(***************************************************************************)
(* SpecConfig: configuration from nothing.  A probe node is constructed    *)
(* with any arguments, a Flow with or without a start node; the node is    *)
(* connected to itself or to null, the Flow started on the node or on      *)
(* null; the node is run.  An object exists once its constructor has       *)
(* returned: the fields of the model hold it from then on.                 *)
(***************************************************************************)
Constructed == DOMAIN successors

\* The test of Node's constructor with its first comparison off by one.
ConstructorThrowsBelowZero(retries, waitMilliseconds) ==
    retries < 0 \/ waitMilliseconds < 0

\* if (maxRetries < 1) throw ...; if (waitMillis < 0) throw ...
ConstructorThrows(retries, waitMilliseconds) ==
    retries < 1 \/ waitMilliseconds < 0

\* Node(retries, waitMilliseconds): an exception leaves the constructor and
\* no object comes to exist; otherwise the node exists with these fields,
\* currentRetry = 0 and empty successors and params.
ConstructNode(n, retries, waitMilliseconds) ==
    /\ status = "idle"
    /\ n \notin Constructed
    /\ IF ConstructorThrows(retries, waitMilliseconds)
       THEN /\ lastCall' = [op |-> "Node", node |-> n, action |-> Absent,
                            ret |-> Null, threw |-> TRUE]
            /\ UNCHANGED <<maxRetries, waitMillis, currentRetry, successors, params>>
       ELSE /\ maxRetries' = Put(maxRetries, n, retries)
            /\ waitMillis' = Put(waitMillis, n, waitMilliseconds)
            /\ currentRetry' = Put(currentRetry, n, 0)
            /\ successors' = Put(successors, n, EmptyMap)
            /\ params' = Put(params, n, EmptyMap)
            /\ lastCall' = [op |-> "Node", node |-> n, action |-> Absent,
                            ret |-> n, threw |-> FALSE]
    /\ UNCHANGED <<capturedValue, startNode, ctx, stack, status, result, error,
                   trace, warnings, wiring>>

\* f.start(node): null is refused, otherwise startNode = node.
start(f, node) ==
    /\ status = "idle"
    /\ f \in DOMAIN startNode
    /\ IF node = Null
       THEN /\ lastCall' = [op |-> "start", node |-> f, action |-> Absent,
                            ret |-> Null, threw |-> TRUE]
            /\ UNCHANGED startNode
       ELSE /\ startNode' = [startNode EXCEPT ![f] = node]
            /\ lastCall' = [op |-> "start", node |-> f, action |-> Absent,
                            ret |-> node, threw |-> FALSE]
    /\ UNCHANGED <<maxRetries, waitMillis, successors, params, capturedValue,
                   runVars, wiring>>

\* Flow(): startNode = nullptr.
ConstructFlow(f) ==
    /\ status = "idle"
    /\ f \notin Constructed
    /\ startNode' = Put(startNode, f, Null)
    /\ successors' = Put(successors, f, EmptyMap)
    /\ params' = Put(params, f, EmptyMap)
    /\ lastCall' = [op |-> "Flow", node |-> f, action |-> Absent, ret |-> f,
                    threw |-> FALSE]
    /\ UNCHANGED <<maxRetries, waitMillis, capturedValue, runVars, wiring>>

\* Flow(start) { this->start(std::move(start)); }: the exception of start
\* leaves the constructor and no Flow comes to exist.
ConstructFlowOn(f, node) ==
    /\ status = "idle"
    /\ f \notin Constructed
    /\ IF node = Null
       THEN /\ lastCall' = [op |-> "Flow", node |-> f, action |-> Absent,
                            ret |-> Null, threw |-> TRUE]
            /\ UNCHANGED <<startNode, successors, params>>
       ELSE /\ startNode' = Put(startNode, f, node)
            /\ successors' = Put(successors, f, EmptyMap)
            /\ params' = Put(params, f, EmptyMap)
            /\ lastCall' = [op |-> "Flow", node |-> f, action |-> Absent,
                            ret |-> f, threw |-> FALSE]
    /\ UNCHANGED <<maxRetries, waitMillis, capturedValue, runVars, wiring>>

\* The arguments a caller may pass to Node's constructor.
RetriesArgs == -1..MaxRetries
WaitArgs == -1..MaxWait

\* No object exists yet.
InitConfig ==
    /\ maxRetries = <<>>
    /\ waitMillis = <<>>
    /\ currentRetry = <<>>
    /\ successors = <<>>
    /\ params = <<>>
    /\ startNode = <<>>
    /\ capturedValue = [n \in CaptureNodes |-> NotCaptured]
    /\ ctx = EmptyMap
    /\ stack = <<>>
    /\ status = "idle"
    /\ result = Absent
    /\ error = ""
    /\ trace = <<>>
    /\ warnings = {}
    /\ lastCall = NoCall
    /\ wiring = <<>>

ConfigNode ==
    \E n \in ProbeNodes, retries \in RetriesArgs, waitMilliseconds \in WaitArgs :
        ConstructNode(n, retries, waitMilliseconds)

ConfigFlow == \E f \in Flows : ConstructFlow(f)

ConfigFlowOn ==
    \E f \in Flows, node \in (ProbeNodes \cap Constructed) \cup {Null} :
        ConstructFlowOn(f, node)

ConfigStart ==
    \E f \in Flows, node \in (ProbeNodes \cap Constructed) \cup {Null} :
        start(f, node)

ConfigNext ==
    \E n \in ProbeNodes \cap Constructed,
       node \in (ProbeNodes \cap Constructed) \cup {Null} :
        nextDefault(n, node)

RunConstructed == \E n \in ProbeNodes \cap Constructed : Run(n)

NextConfig ==
    \/ ConfigNode
    \/ ConfigFlow
    \/ ConfigFlowOn
    \/ ConfigStart
    \/ ConfigNext
    \/ RunConstructed
    \/ NodePrep
    \/ NodeExec
    \/ NodeSleep
    \/ NodeFallback
    \/ NodePost

SpecConfig == InitConfig /\ [][NextConfig]_vars

\* The nodes that exist have a valid retry configuration.
ValidNodes ==
    /\ DOMAIN maxRetries = DOMAIN waitMillis
    /\ \A n \in DOMAIN maxRetries : maxRetries[n] >= 1 /\ waitMillis[n] >= 0

\* A step that constructs a node passes arguments the constructor accepts,
\* and the node has them; a constructor call that fails leaves no object.
ConstructionChecked ==
    /\ \A n \in DOMAIN maxRetries' \ DOMAIN maxRetries :
          /\ lastCall' = [op |-> "Node", node |-> n, action |-> Absent,
                          ret |-> n, threw |-> FALSE]
          /\ maxRetries'[n] >= 1 /\ waitMillis'[n] >= 0
    /\ (lastCall' # lastCall /\ lastCall'.op \in {"Node", "Flow"} /\ lastCall'.threw) =>
          /\ lastCall'.node \notin DOMAIN successors'
          /\ <<maxRetries, waitMillis, currentRetry, successors, params,
               startNode>>' =
             <<maxRetries, waitMillis, currentRetry, successors, params, startNode>>
    /\ \A r \in RetriesArgs, w \in WaitArgs, n \in ProbeNodes :
          (ConstructNode(n, r, w) /\ (r < 1 \/ w < 0)) =>
              lastCall'.threw /\ n \notin DOMAIN maxRetries'

\* A step that connects null fails and leaves every successor table as it
\* was; a step that connects a node returns it.
NullSuccessorRefused ==
    wiring' # wiring =>
        IF wiring'[Len(wiring')].target = Null
        THEN lastCall'.op = "next" /\ lastCall'.threw /\ successors' = successors
        ELSE lastCall'.op = "next" /\ ~lastCall'.threw

\* A step that starts a Flow on null, or constructs it on null, fails and
\* leaves every start node as it was.
NullStartRefused ==
    \A f \in Flows :
        (start(f, Null) \/ ConstructFlowOn(f, Null)) =>
            /\ lastCall'.threw
            /\ startNode' = startNode
            /\ successors' = successors

(***************************************************************************)
(* C22: invalid configuration is refused when it is made and changes       *)
(* nothing.  Node's constructor fails on maxRetries < 1 or waitMillis < 0, *)
(* so every node that exists has maxRetries >= 1 and waitMillis >= 0,      *)
(* every invocation makes at least one attempt, and fallback is always     *)
(* handed a captured error; connecting null fails and leaves the successor *)
(* table unchanged; starting a Flow on null fails and leaves its start     *)
(* node unchanged.                                                         *)
(***************************************************************************)
C22_InvalidConfigurationRefused ==
    /\ []ValidNodes
    /\ [](\A n \in ProbeNodes :
            /\ (Running /\ Top.node = n /\ Top.pc \in {"fallback", "post"}) =>
                  Count("exec", n) + Count("exec_throw", n) >= 1
            /\ (Running /\ Top.node = n /\ Top.pc = "fallback") => Top.lastErr # ""
            /\ FallbackCalls(n) = 1 => Count("exec_throw", n) = maxRetries[n]
            /\ (status = "error" /\ error = "fallback") =>
                  Count("fallback_throw", n) = 1)
    /\ [][ConstructionChecked]_vars
    /\ [][NullSuccessorRefused]_vars
    /\ [][NullStartRefused]_vars

\* The node was made with (1, 0) and connected to itself; connecting null
\* then failed and left the table as it was, and so did starting the Flow
\* on null; the node's one attempt has failed and its fallback is about to
\* be handed the error.
C22_Witness ==
    /\ maxRetries = [n \in {"N"} |-> 1]
    /\ successors["N"] = [l \in {""} |-> "N"]
    /\ Len(wiring) = 2 /\ wiring[2].target = Null
    /\ "F" \in DOMAIN startNode /\ startNode["F"] = Null
    /\ lastCall = [op |-> "start", node |-> "F", action |-> Absent,
                   ret |-> Null, threw |-> TRUE]
    /\ Running /\ Top.node = "N" /\ Top.pc = "fallback"
    /\ Count("exec_throw", "N") = 1
    /\ Top.lastErr # ""

(***************************************************************************)
(* SpecSimple: the simple workflow of main.cpp, startNode leading to       *)
(* endNode under "started", and an echo node constructed with any          *)
(* permitted (maxRetries, waitMillis); run() is called on the Flow or on   *)
(* one of the nodes whose prep returns a std::string.                      *)
(***************************************************************************)
\* startNode->next(endNode, "started")
SimpleWiring ==
    [n \in AllNodes |->
        IF n \in MyStartNodes THEN [l \in {"started"} |-> "endNode"] ELSE EmptyMap]

InitSimple ==
    /\ \E r \in [EchoNodes -> 1..MaxRetries] :
          maxRetries = [n \in RetryNodes |-> IF n \in EchoNodes THEN r[n] ELSE 1]
    /\ \E w \in [EchoNodes -> 0..MaxWait] :
          waitMillis = [n \in RetryNodes |-> IF n \in EchoNodes THEN w[n] ELSE 0]
    /\ successors = SimpleWiring
    /\ params = [n \in AllNodes |-> EmptyMap]
    /\ startNode = [f \in FlowNodes |-> IF f \in Flows THEN "startNode" ELSE Null]
    /\ InitRun

RunStringNode == \E n \in StringNodes : Run(n)

NextSimple ==
    \/ RunFlow
    \/ RunStringNode
    \/ FlowEnter
    \/ OrchestrateLoop
    \/ OrchestrateDispatch
    \/ FlowPost
    \/ NodePrep
    \/ NodeExec
    \/ NodeSleep
    \/ NodeFallback
    \/ NodePost

SpecSimple == InitSimple /\ [][NextSimple]_vars

\* The string prep of n returned.
PrepReturned(n) == trace[Latest(Positions("prep", n))].v

\* Every exec attempt and the fallback of an echo node were handed what
\* prep returned: what they returned is what they were handed.
AttemptsGetPrepResult ==
    \A n \in EchoNodes :
        \A j \in Positions("exec", n) \cup Positions("fallback", n) :
            trace[j].v = PrepReturned(n)

(***************************************************************************)
(* C23: in every node invocation post is handed the value prep returned,   *)
(* as is every exec attempt and the fallback, whatever the type P: the end *)
(* node, whose prep returns a non-empty string and whose post stores its P *)
(* argument in the Context, leaves exactly that string there.              *)
(***************************************************************************)
C23_PostGetsPrepResult ==
    /\ AttemptsGetPrepResult
    /\ \A n \in EchoNodes :
          Count("post", n) = 1 =>
              /\ ctx["p"] = AnyStr(PrepReturned(n))
              /\ ctx["e"] = AnyStr(PrepReturned(n))
    /\ \A n \in MyEndNodes :
          Count("post", n) = 1 =>
              /\ PrepReturned(n) = "Preparing to end workflow"
              /\ ctx["end_node_prep_result"] = AnyStr(PrepReturned(n))

\* The positions of the history at which item i of n was attempted, at
\* which an attempt on it failed, and at which its fallback was called.
ItemAttempts(n, i) ==
    {j \in 1..Len(trace) :
        /\ trace[j].item = i /\ trace[j].node = n
        /\ trace[j].op \in {"execItem", "execItem_throw"}}
ItemFailures(n, i) ==
    {j \in 1..Len(trace) :
        trace[j].item = i /\ trace[j].node = n /\ trace[j].op = "execItem_throw"}
ItemFallbacks(n, i) ==
    {j \in 1..Len(trace) :
        /\ trace[j].item = i /\ trace[j].node = n
        /\ trace[j].op \in {"itemFallback", "itemFallback_throw"}}

\* The batch node n is in the retry loop of item i, or about to call the
\* item's fallback.
AtItem(n, i) ==
    /\ Running /\ Top.node = n /\ Top.itemIndex = i
    /\ Top.pc \in {"execItem", "itemSleep", "itemFallback"}

(***************************************************************************)
(* C24: in a BatchNode every item has its own retry budget.  The counter   *)
(* restarts at zero for each item; executeItem is called at most           *)
(* maxRetries times per item whatever earlier items used; the item's       *)
(* fallback is called exactly once if and only if all maxRetries attempts  *)
(* on the item failed; the value a fallback returns becomes output[i] and  *)
(* processing goes on with item i + 1.                                     *)
(***************************************************************************)
C24_PerItemRetryBudget ==
    \A n \in BatchNodes :
        \A i \in 1..MaxItems :
            LET attempts  == Cardinality(ItemAttempts(n, i))
                failures  == Cardinality(ItemFailures(n, i))
                fallbacks == Cardinality(ItemFallbacks(n, i))
            IN  /\ attempts <= maxRetries[n]
                /\ attempts - failures <= 1
                /\ fallbacks <= 1
                /\ fallbacks = 1 =>
                      /\ failures = maxRetries[n]
                      /\ attempts = failures
                /\ failures = maxRetries[n] =>
                      \/ fallbacks = 1
                      \/ AtItem(n, i) /\ Top.pc = "itemFallback"
                /\ AtItem(n, i) =>
                      /\ currentRetry[n] =
                            IF Top.pc = "itemSleep" THEN failures - 1 ELSE failures
                      /\ Top.pc = "execItem" => failures < maxRetries[n]
                /\ \A j \in ItemFallbacks(n, i) :
                      trace[j].op = "itemFallback" =>
                          /\ Running => Top.results[i] = trace[j].v
                          /\ IF j < Len(trace)
                             THEN \/ trace[j + 1].op = "post"
                                  \/ /\ trace[j + 1].item = i + 1
                                     /\ j + 1 \in ItemAttempts(n, i + 1)
                             ELSE \/ Top.pc = "post" /\ Len(Top.batchPrepResult) = i
                                  \/ /\ AtItem(n, i + 1) /\ Top.pc = "execItem"
                                     /\ currentRetry[n] = 0

\* The first item used all three attempts and its fallback returned; the
\* second failed twice and succeeded on its third attempt.
C24_Witness ==
    /\ maxRetries["BN"] = 3
    /\ Cardinality(ItemFailures("BN", 1)) = 3
    /\ \E j \in ItemFallbacks("BN", 1) : trace[j].op = "itemFallback"
    /\ Cardinality(ItemFailures("BN", 2)) = 2
    /\ Cardinality(ItemAttempts("BN", 2)) = 3
    /\ Running /\ Top.node = "BN" /\ Top.results = <<19, 21>>

(***************************************************************************)
(* SpecFailing: run() of a Flow started on the probe node, constructed     *)
(* with any permitted (maxRetries, waitMillis) and any of whose hooks may  *)
(* fail; the probe may lead on to main's addNum, whose prep fails on the   *)
(* Context the probe leaves, and which leads on to a capture node.         *)
(***************************************************************************)
\* The probe wired to addNum under any of the labels, addNum wired as in
\* main's linear test.
FailingWirings ==
    {[n \in AllNodes |->
         IF n \in ProbeNodes THEN t
         ELSE IF n = "addNum" THEN [l \in {"added"} |-> "captureDefault"]
         ELSE EmptyMap] : t \in UNION {[D -> AddNumberNodes] : D \in SUBSET Labels}}

InitFailing ==
    /\ InitRun
    /\ \E r \in [ProbeNodes -> 1..MaxRetries] :
          maxRetries = [n \in RetryNodes |-> IF n \in ProbeNodes THEN r[n] ELSE 1]
    /\ \E w \in [ProbeNodes -> 0..MaxWait] :
          waitMillis = [n \in RetryNodes |-> IF n \in ProbeNodes THEN w[n] ELSE 0]
    /\ successors \in FailingWirings
    /\ params = [n \in AllNodes |-> EmptyMap]
    /\ startNode = [f \in FlowNodes |-> IF f \in Flows THEN "N" ELSE Null]

NextFailing ==
    \/ RunFlow
    \/ FlowEnter
    \/ OrchestrateLoop
    \/ OrchestrateDispatch
    \/ FlowPost
    \/ NodePrep
    \/ NodeExec
    \/ NodeSleep
    \/ NodeFallback
    \/ NodePost

SpecFailing == InitFailing /\ [][NextFailing]_vars

\* The calls of prep on n, returned or thrown.
PrepCalls(n) == Count("prep", n) + Count("prep_throw", n)

\* The run has ended at position j of the history with error e: nothing
\* was called after it and no flow returned an action.
RunEndedAt(j, e) ==
    /\ j = Len(trace)
    /\ status = "error" /\ error = e
    /\ stack = <<>>
    /\ result = Absent
    /\ \A f \in Flows : Count("flow_post", f) = 0

(***************************************************************************)
(* C25: only exec failures are retried.  A failure of prep ends the node   *)
(* invocation and the run at once: prep is not called again, and exec, the *)
(* fallback and post of that node are never called.  A failure of post     *)
(* ends the run at once: post is not called again, exec is not called      *)
(* again and the fallback is not called for it.  Neither counts as an      *)
(* attempt: the retry counter is what the failed exec attempts made it.    *)
(***************************************************************************)
C25_OnlyExecIsRetried ==
    /\ \A n \in ProbeNodes \cup AddNumberNodes :
          /\ PrepCalls(n) <= 1
          /\ PostCalls(n) <= 1
          /\ \A j \in Positions("prep_throw", n) :
                /\ RunEndedAt(j, "prep")
                /\ Count("exec", n) + Count("exec_throw", n) = 0
                /\ FallbackCalls(n) = 0
                /\ PostCalls(n) = 0
                /\ currentRetry[n] = 0
          /\ \A j \in Positions("post_throw", n) :
                /\ RunEndedAt(j, "post")
                /\ trace[j - 1].node = n
                /\ trace[j - 1].op \in {"exec", "fallback"}
                /\ Count("exec", n) + FallbackCalls(n) = 1
                /\ Count("exec_throw", n) <= maxRetries[n]
                /\ currentRetry[n] = Count("exec_throw", n)
    /\ \A j \in 1..Len(trace) :
          trace[j].op \in {"prep_throw", "post_throw"} => j = Len(trace)
    /\ status = "error" =>
          /\ trace[Len(trace)].op \in {"prep_throw", "fallback_throw", "post_throw"}
          /\ error = "prep" <=> trace[Len(trace)].op = "prep_throw"
          /\ error = "post" <=> trace[Len(trace)].op = "post_throw"
    /\ ~Executed("captureDefault")

\* The probe failed twice, succeeded on its third attempt and led on to
\* addNum, whose prep failed on the missing "currentValue".
C25_Witness ==
    /\ status = "error" /\ error = "prep"
    /\ maxRetries["N"] = 3
    /\ Count("exec_throw", "N") = 2 /\ Count("post", "N") = 1
    /\ Runs = <<"N", "addNum">>
    /\ trace[Len(trace)] = Event("prep_throw", "addNum", 0)

(***************************************************************************)
(* SpecParams: run() of a Flow or a BatchFlow started on the inner Flow G  *)
(* or on a ResultCaptureNode; G is started on the ResultCaptureNode and    *)
(* leads on to the step node A.  Every object holds Params from earlier    *)
(* setParams calls or earlier runs.                                        *)
(***************************************************************************)
\* Params a node may hold before the run: none, a key no run pushes, a key
\* the BatchFlow's parameter sets also use, and the key a
\* ResultCaptureNode wrote in an earlier run.
OldParams      == [k \in {"old"} |-> AnyInt(1)]
CapturedParams == [k \in {"capturedValue"} |-> AnyInt(5)]

InitParams ==
    /\ InitRun
    /\ maxRetries = [n \in RetryNodes |-> 1]
    /\ waitMillis = [n \in RetryNodes |-> 0]
    /\ successors = [n \in AllNodes |->
                        IF n \in InnerFlows THEN [l \in {""} |-> "A"] ELSE EmptyMap]
    /\ \E top \in Flows \cup BatchFlows :
          /\ \E st \in InnerFlows \cup {"captureDefault"} :
                startNode = [f \in FlowNodes |->
                                IF f = top THEN st
                                ELSE IF f \in InnerFlows THEN "captureDefault"
                                ELSE Null]
          /\ \E q \in ParamMaps,
                g \in {EmptyMap, OldParams, [k \in {"k"} |-> AnyInt(2)]},
                c \in {EmptyMap, OldParams, CapturedParams},
                a \in {EmptyMap, OldParams} :
                params = [n \in AllNodes |->
                             IF n = top THEN q
                             ELSE IF n \in InnerFlows THEN g
                             ELSE IF n = "captureDefault" THEN c
                             ELSE IF n = "A" THEN a
                             ELSE EmptyMap]

\* run() of the flow that was built.
RunBuilt == \E f \in Flows \cup BatchFlows : startNode[f] # Null /\ Run(f)

NextParams ==
    \/ RunBuilt
    \/ FlowEnter
    \/ OrchestrateLoop
    \/ OrchestrateDispatch
    \/ FlowPost
    \/ BatchFlowPrep
    \/ BatchFlowNext
    \/ BatchFlowAdvance
    \/ BatchFlowPost
    \/ NodePrep
    \/ NodeExec
    \/ NodeFallback
    \/ NodePost

SpecParams == InitParams /\ [][NextParams]_vars

\* The position of the last invocation of n in the history, 0 if none.
LastRun(n) ==
    IF Positions("run", n) = {} THEN 0
    ELSE CHOOSE i \in Positions("run", n) : \A j \in Positions("run", n) : j <= i

\* The exec of n has returned in its last invocation.
ExecSince(n) == \E j \in Positions("exec", n) : j > LastRun(n)

\* The Params of n after runParams were pushed into it: runParams, and
\* what the node's own exec wrote since.
PushedThenWritten(n, runParams) ==
    IF n \in CaptureNodes /\ ExecSince(n)
    THEN Put(runParams, "capturedValue", AnyInt(capturedValue[n]))
    ELSE runParams

\* The flow run() was called on.
BuiltFlow == CHOOSE f \in Flows \cup BatchFlows : startNode[f] # Null

\* The position of the last orchestrate call of the built flow.
LastOrchestrate ==
    CHOOSE i \in Positions("orchestrate", BuiltFlow) :
        \A j \in Positions("orchestrate", BuiltFlow) : j <= i

\* The nodes invoked in the traversal going on, nested ones included.
Traversed ==
    IF Positions("orchestrate", BuiltFlow) = {} THEN {}
    ELSE {trace[i].node : i \in {j \in LastOrchestrate..Len(trace) : trace[j].op = "run"}}

\* The nodes invoked at some time of the run.
EverRun == {trace[i].node : i \in {j \in 1..Len(trace) : trace[j].op = "run"}}

\* Every node being executed holds the runParams of the orchestrate call
\* that called it; a nested Flow's orchestrate runs on the same runParams.
ExecutingNodesHoldRunParams ==
    \A i \in 2..Len(stack) :
        /\ params[stack[i].node] =
              PushedThenWritten(stack[i].node, stack[i - 1].currentRunParams)
        /\ (KindOf(stack[i].node) = "Flow" /\ stack[i].pc # "prep")
              => stack[i].currentRunParams = stack[i - 1].currentRunParams

\* Every node of the traversal going on holds the runParams of that
\* orchestrate call.
TraversalHoldsRunParams ==
    (Running /\ stack[1].pc \in {"loop", "called"})
       => \A n \in Traversed :
             params[n] = PushedThenWritten(n, stack[1].currentRunParams)

\* After the run every node that was invoked still holds the runParams
\* pushed last: the flow's standing Params, with a parameter set of the
\* BatchFlow inserted.
RunParamsPersist ==
    Ended =>
       \A n \in EverRun :
          \E q \in (IF BuiltFlow \in BatchFlows THEN ParamMaps ELSE {EmptyMap}) :
             params[n] = PushedThenWritten(n, RunParams(BuiltFlow, q))

\* A step changes the Params of a node only by pushing the runParams of
\* the orchestrate call into the node about to be executed, or by the
\* node's own exec writing its key.
ParamsChangeOnlyByPush ==
    \A n \in AllNodes :
        params'[n] # params[n] =>
           \/ /\ IsFlowFrame /\ Top.pc = "loop" /\ Top.currentNode = n
              /\ params'[n] = Top.currentRunParams
              /\ Len(stack') = Len(stack) + 1
           \/ /\ At("Node", "exec") /\ Top.node = n /\ n \in CaptureNodes
              /\ params'[n] = Put(params[n], "capturedValue", AnyInt(Top.prepRes))

\* Whenever an orchestrate call starts a node, the node holds exactly the
\* runParams of that call.
PushReplaces ==
    (IsFlowFrame /\ Top.pc = "loop" /\ Len(stack') = Len(stack) + 1)
       => /\ stack'[Len(stack')].node = Top.currentNode
          /\ params'[Top.currentNode] = Top.currentRunParams
          /\ DOMAIN params'[Top.currentNode] = DOMAIN Top.currentRunParams

(***************************************************************************)
(* C26: pushing the run's Params replaces, it does not merge.  As an       *)
(* orchestrate call starts a node, the node's Params become exactly the    *)
(* runParams of that call; every node of the traversal, a nested Flow and  *)
(* its nodes included, holds those runParams (and what its own exec wrote  *)
(* since), so a key configured before, written by the node in an earlier   *)
(* run or sub-run, or left by an earlier push is gone unless runParams     *)
(* hold it; nothing restores the old Params after the run.                 *)
(***************************************************************************)
C26_PushedParamsReplace ==
    /\ []ExecutingNodesHoldRunParams
    /\ []TraversalHoldsRunParams
    /\ []RunParamsPersist
    /\ [][ParamsChangeOnlyByPush]_vars
    /\ [][PushReplaces]_vars

\* The Flow holding "k" = 1 was started on G, which held "k" = 2, with the
\* ResultCaptureNode holding the "capturedValue" of an earlier run and A
\* holding "old".  The run has ended: G and A hold exactly "k" = 1, the
\* ResultCaptureNode "k" = 1 and the value it captured in this run.
C26_Witness ==
    /\ status = "done"
    /\ Runs = <<"G", "captureDefault", "A">>
    /\ params["F"] = [k \in {"k"} |-> AnyInt(1)]
    /\ params["G"] = [k \in {"k"} |-> AnyInt(1)]
    /\ params["A"] = [k \in {"k"} |-> AnyInt(1)]
    /\ params["captureDefault"] =
          Put([k \in {"k"} |-> AnyInt(1)], "capturedValue", AnyInt(NotCaptured))
    /\ "old" \notin DOMAIN params["A"]
====
